---- MODULE Spec2Model ----
(***************************************************************************)
(* Model of tools/combine-files/combine_files.py: the variable expander,   *)
(* the dual-view ConfigContent, the TOML match locator, the two script     *)
(* inliners and the config combiner.                                       *)
(*                                                                         *)
(* A text is a sequence of characters; every character is a one-element    *)
(* TLA+ string.  A few multi-character strings stand for a run of          *)
(* characters that none of the regular expressions of the program looks    *)
(* into (a TOML key, a file name, a table header).                         *)
(***************************************************************************)
EXTENDS Integers, Sequences, FiniteSets, TLC

VARIABLES
    path_vars,        \* the variable map, an ordered dict: sequence of [name, value]
    ex_text,          \* expander run: the input text
    ex_results,       \* expander run: results of the successive expansions
    ex_defaults,      \* expander run: result of the first pass alone, when run
    ex_permuted,      \* expander run: result with the map in another order
    original_lines,   \* ConfigContent.original_lines
    expanded_lines,   \* ConfigContent.expanded_lines
    line_map,         \* ConfigContent.line_map (0-based original indices)
    text0,            \* the text the ConfigContent was constructed from
    call,             \* the last replace_lines call and its outcome
    config_files,     \* main: the --config files, in input order
    inline_starlark,  \* main: --inline-starlark
    inline_shell,     \* main: --inline-shell-script
    cur,              \* combine_configs: index of the config file in progress
    content,          \* _process_config_file: content
    config_content,   \* the text the running (or last) inliner pass was called with
    matches,          \* the matches of the running (or last) inliner pass
    mi,               \* position in reversed(matches): matches[mi] is next
    warnings,         \* number of warnings printed
    combined_content, \* combine_configs: the accumulator
    output,           \* the output file
    error,            \* the fatal condition met, or "none"
    report,           \* the lines _report_file_not_found has printed
    exit_code,        \* exit status of the process, -1 while it runs
    pc,               \* control state of main
    device_tokens,    \* token server: device_tokens (serial -> generated token)
    threads,          \* token server: the request each request thread is handling
    served,           \* token server: number of requests received so far
    uuid_count,       \* token server: number of uuid4 tokens generated so far
    response,         \* token server: the last response sent
    rotated,          \* token server: the 200 responses of /generate-token
    toml_text,        \* key search: the text of the document
    keys_found,       \* key search: <<result>> of _find_all_keys_in_toml
    matches_found     \* key search: <<result>> of find_valid_toml_matches

expVars == <<ex_text, ex_results, ex_defaults, ex_permuted>>

objVars == <<original_lines, expanded_lines, line_map>>

contentVars == <<text0, call>>

mainVars == <<config_files, inline_starlark, inline_shell, cur, content,
              config_content, matches, mi, warnings, combined_content,
              output, error, report, exit_code, pc>>

serverVars == <<device_tokens, threads, served, uuid_count, response, rotated>>

tomlVars == <<toml_text, keys_found, matches_found>>

vars == <<path_vars, expVars, objVars, contentVars, mainVars, serverVars, tomlVars>>

----------------------------------------------------------------------------
(* Bounds *)

MaxPieces == 5        \* pieces of an expander input text
MaxContentPieces == 3 \* pieces of a ConfigContent construction text
MaxCalls == 2         \* replace_lines calls on one ConfigContent
MaxTomlBlocks == 3    \* blocks of a document of the key search
MaxOrderPieces == 3   \* pieces of a text expanded with a map in two orders
MaxBlocks == 3        \* blocks of a config file
MaxFiles == 2         \* config files of one run, when there are several
MaxRequests == 3      \* requests sent to the token server, one thread each

----------------------------------------------------------------------------
(* Characters and strings *)

NL == "\n"

CR == "\r"

\* [A-Za-z0-9_] of the bare-variable lookahead, restricted to the alphabet
IdentChars ==
    {"A", "B", "D", "M", "S", "d", "r", "v", "w", "x", "1", "_",
     "a.star", "b.star", "q.star", "missing.star", "a.sh", "b.sh", "c.sh",
     "missing.sh", "tool.bin", "arg", "script", "command", "source", "true"}

RECURSIVE Concat(_)
Concat(ss) == IF ss = <<>> THEN <<>> ELSE Head(ss) \o Concat(Tail(ss))

\* s[i..] starts with pat
StartsWithAt(s, i, pat) ==
    /\ i + Len(pat) - 1 <= Len(s)
    /\ SubSeq(s, i, i + Len(pat) - 1) = pat

\* first index j >= i with s[j] in stop, or Len(s)+1
RECURSIVE RunEnd(_, _, _)
RunEnd(s, i, stop) ==
    IF i > Len(s) \/ s[i] \in stop THEN i ELSE RunEnd(s, i + 1, stop)

\* str.split("\n")
RECURSIVE Split(_)
Split(s) ==
    LET j == RunEnd(s, 1, {NL})
    IN  IF j > Len(s) THEN <<s>>
        ELSE <<SubSeq(s, 1, j - 1)>> \o Split(SubSeq(s, j + 1, Len(s)))

\* "\n".join(lines)
RECURSIVE Join(_)
Join(lines) ==
    IF lines = <<>> THEN <<>>
    ELSE IF Len(lines) = 1 THEN lines[1]
    ELSE lines[1] \o <<NL>> \o Join(Tail(lines))

----------------------------------------------------------------------------
(* Variable map (a Python dict: unique names, insertion order) *)

HasVar(V, name) == \E k \in 1..Len(V) : V[k].name = name

GetVar(V, name) == V[CHOOSE k \in 1..Len(V) : V[k].name = name].value

----------------------------------------------------------------------------
(* expand_default_values *)

NoMatch == [ok |-> FALSE]

\* the regular expression \$\{([^:}]+):-([^}]+)\} tried at position i
var_default_pattern(s, i) ==
    LET n1 == i + 2
        n2 == RunEnd(s, n1, {":", "}"})
        d1 == n2 + 2
        d2 == RunEnd(s, d1, {"}"})
    IN  IF /\ i + 1 <= Len(s) /\ s[i] = "$" /\ s[i + 1] = "{"
           /\ n2 > n1 /\ n2 + 1 <= Len(s) /\ s[n2] = ":" /\ s[n2 + 1] = "-"
           /\ d2 > d1 /\ d2 <= Len(s)
        THEN [ok |-> TRUE, var_name |-> SubSeq(s, n1, n2 - 1),
              default_value |-> SubSeq(s, d1, d2 - 1), end |-> d2]
        ELSE NoMatch

replace_default(match, V) ==
    IF V # <<>> /\ HasVar(V, match.var_name)
    THEN GetVar(V, match.var_name)
    ELSE match.default_value

\* re.sub(var_default_pattern, replace_default, path_str): leftmost,
\* non-overlapping matches, the replacement is not scanned again
RECURSIVE SubDefaults(_, _, _)
SubDefaults(s, i, V) ==
    IF i > Len(s) THEN <<>>
    ELSE LET m == var_default_pattern(s, i)
         IN  IF m.ok THEN replace_default(m, V) \o SubDefaults(s, m.end + 1, V)
             ELSE <<s[i]>> \o SubDefaults(s, i + 1, V)

expand_default_values(path_str, V) == SubDefaults(path_str, 1, V)

----------------------------------------------------------------------------
(* expand_path_variables *)

\* str.replace(old, new), old not empty
RECURSIVE StrReplace(_, _, _)
StrReplace(s, old, new) ==
    IF s = <<>> THEN <<>>
    ELSE IF StartsWithAt(s, 1, old)
         THEN new \o StrReplace(SubSeq(s, Len(old) + 1, Len(s)), old, new)
         ELSE <<Head(s)>> \o StrReplace(Tail(s), old, new)

\* faulty variant: the pattern without its lookahead
BareVarNoBoundary(s, j) == TRUE

\* faulty variant: a lookahead that takes only digits for identifier characters
BareVarBoundaryDigits(s, j) == j > Len(s) \/ s[j] \notin {"1"}

\* the lookahead (?=[^A-Za-z0-9_]|$) at position j
BareVarBoundary(s, j) == j > Len(s) \/ s[j] \notin IdentChars

\* re.sub(rf"\${name}(?=[^A-Za-z0-9_]|$)", value, s).  The alphabet has no
\* backslash, so the replacement template is the value itself.
RECURSIVE SubBareVar(_, _, _)
SubBareVar(s, name, value) ==
    IF s = <<>> THEN <<>>
    ELSE LET pat == <<"$">> \o name
         IN  IF StartsWithAt(s, 1, pat) /\ BareVarBoundary(s, Len(pat) + 1)
             THEN value \o SubBareVar(SubSeq(s, Len(pat) + 1, Len(s)), name, value)
             ELSE <<Head(s)>> \o SubBareVar(Tail(s), name, value)

\* the body of the loop over path_vars.items()
ExpandOneVar(s, name, value) ==
    SubBareVar(StrReplace(s, <<"$", "{">> \o name \o <<"}">>, value), name, value)

RECURSIVE ExpandVarsFrom(_, _, _)
ExpandVarsFrom(s, V, k) ==
    IF k > Len(V) THEN s
    ELSE ExpandVarsFrom(ExpandOneVar(s, V[k].name, V[k].value), V, k + 1)

expand_path_variables(path_str, V) ==
    LET result == expand_default_values(path_str, V)
    IN  IF V # <<>> THEN ExpandVarsFrom(result, V, 1) ELSE result

----------------------------------------------------------------------------
(* ConfigContent *)

\* faulty variant: line_map.append outside the loop over the sub-lines
MapRunOnce(n, orig_line_num) == <<orig_line_num>>

\* the inner loop of _build_expanded for one original line
RECURSIVE MapRun(_, _)
MapRun(n, orig_line_num) ==
    IF n = 0 THEN <<>> ELSE <<orig_line_num>> \o MapRun(n - 1, orig_line_num)

\* faulty variant: the expansion of a line appended as one line, not split
RECURSIVE BuildUnsplit(_, _, _)
BuildUnsplit(lines, V, k) ==
    IF k > Len(lines) THEN [expanded_lines |-> <<>>, line_map |-> <<>>]
    ELSE LET rest == BuildUnsplit(lines, V, k + 1)
         IN  [expanded_lines |-> <<expand_path_variables(lines[k], V)>>
                                     \o rest.expanded_lines,
              line_map       |-> <<k - 1>> \o rest.line_map]

RECURSIVE BuildFrom(_, _, _)
BuildFrom(lines, V, k) ==
    IF k > Len(lines) THEN [expanded_lines |-> <<>>, line_map |-> <<>>]
    ELSE LET sub  == Split(expand_path_variables(lines[k], V))
             rest == BuildFrom(lines, V, k + 1)
         IN  [expanded_lines |-> sub \o rest.expanded_lines,
              line_map       |-> MapRun(Len(sub), k - 1) \o rest.line_map]

build_expanded(lines, V) == BuildFrom(lines, V, 1)

get_original(lines) == Join(lines)

get_expanded(elines) == Join(elines)

\* line_map.count(orig_line_num)
Count(lm, orig_line_num) == Cardinality({e \in 1..Len(lm) : lm[e] = orig_line_num})

\* faulty variant: the validation looks at the first original line only
MultiLineAtStart(lm, orig_start, orig_end) == Count(lm, orig_start) > 1

\* the validation loop of replace_lines: some original line of the range
\* expanded to more than one line
MultiLineInRange(lm, orig_start, orig_end) ==
    \E o \in orig_start..orig_end : Count(lm, o) > 1

\* original_lines[orig_start : orig_end + 1] = replacement_lines
SliceAssign(lines, orig_start, orig_end, replacement_lines) ==
    SubSeq(lines, 1, orig_start) \o replacement_lines
        \o SubSeq(lines, orig_end + 2, Len(lines))

\* faulty variant: the expanded line number used as the original one
ExpandedIndex(lm, exp) == exp

\* self.line_map[exp]: expanded line number to original line number
OrigIndex(lm, exp) == lm[exp + 1]

\* faulty variant: the original lines are replaced before the validation
ReplaceBeforeValidating(lines, lm, exp_start, exp_end, replacement_text) ==
    LET orig_start == OrigIndex(lm, exp_start)
        orig_end   == OrigIndex(lm, exp_end)
    IN  [outcome |-> IF MultiLineInRange(lm, orig_start, orig_end)
                     THEN "ValueError" ELSE "ok",
         original_lines |->
             SliceAssign(lines, orig_start, orig_end, Split(replacement_text)),
         message |-> << <<"Cannot replace: original line expanded to ",
                          "more than one line">> >>]

\* replace_lines on the object (lines, lm); exp_start and exp_end are 0-based
\* and in range.  Returns the outcome and the new original lines.
replace_lines(lines, lm, exp_start, exp_end, replacement_text) ==
    LET orig_start == OrigIndex(lm, exp_start)
        orig_end   == OrigIndex(lm, exp_end)
    IN  IF MultiLineInRange(lm, orig_start, orig_end)
        THEN [outcome |-> "ValueError", original_lines |-> lines,
              message |-> << <<"Cannot replace: original line expanded to ",
                               "more than one line">> >>]
        ELSE [outcome |-> "ok",
              original_lines |->
                  SliceAssign(lines, orig_start, orig_end, Split(replacement_text))]

\* str.splitlines(): no empty last line after a final newline
SplitLines(s) ==
    LET lines == Split(s)
    IN  IF lines[Len(lines)] = <<>> THEN SubSeq(lines, 1, Len(lines) - 1) ELSE lines

\* faulty variant: the constructor splits with splitlines()
ConfigContentInitSplitlines(original_content, V) ==
    LET lines == SplitLines(original_content)
        b     == build_expanded(lines, V)
    IN  [original_lines |-> lines, expanded_lines |-> b.expanded_lines,
         line_map |-> b.line_map]

\* ConfigContent.__init__
ConfigContentInit(original_content, V) ==
    LET lines == Split(original_content)
        b     == build_expanded(lines, V)
    IN  [original_lines |-> lines, expanded_lines |-> b.expanded_lines,
         line_map |-> b.line_map]

----------------------------------------------------------------------------
(* tomlkit, as far as the program relies on it: the documents are lines of *)
(* comments, table headers and key = value pairs whose values are basic    *)
(* strings, multi-line literal strings, arrays of strings and bare words.  *)

SP == " "
DQ == "\""
TQ == "'''"
HASH == "#"
EQ == "="
LB == "["
RB == "]"
COMMA == ","

KeyTokens == {"script", "command", "source"}

BareTokens == {"true"}

\* the table headers of the documents: [[table.subtable]] of the two plugin
\* kinds and of a second processor, a plain table, an array of tables with a
\* one-segment name and one nested in the entries of [[p.s]]
HeaderTokens == {"[[p.s]]", "[[o.e]]", "[t]", "[[p.r]]", "[[a]]", "[[p.s.x]]"}

HeaderPath(h) ==
    CASE h = "[[p.s]]" -> <<"p", "s">>
      [] h = "[[o.e]]" -> <<"o", "e">>
      [] h = "[t]"     -> <<"t">>
      [] h = "[[p.r]]" -> <<"p", "r">>
      [] h = "[[a]]"   -> <<"a">>
      [] h = "[[p.s.x]]" -> <<"p", "s", "x">>

HeaderIsArray(h) == h \in {"[[p.s]]", "[[o.e]]", "[[p.r]]", "[[a]]", "[[p.s.x]]"}

RECURSIVE SkipSet(_, _, _)
SkipSet(s, i, ws) ==
    IF i <= Len(s) /\ s[i] \in ws THEN SkipSet(s, i + 1, ws) ELSE i

At(s, i) == IF i >= 1 /\ i <= Len(s) THEN s[i] ELSE "<eof>"

\* a TOMLKitError raised at position at of the text
ParseFail(at) == [ok |-> FALSE, at |-> at]

\* a basic string or a multi-line literal string starting at i
ParseString(s, i) ==
    IF At(s, i) = DQ
    THEN LET j == RunEnd(s, i + 1, {DQ, NL})
         IN  IF At(s, j) = DQ
             THEN [ok |-> TRUE, end |-> j,
                   val |-> [t |-> "str", v |-> SubSeq(s, i + 1, j - 1),
                            raw |-> SubSeq(s, i, j)]]
             ELSE ParseFail(j)
    ELSE IF At(s, i) = TQ
    THEN LET j == RunEnd(s, i + 1, {TQ})
             b == IF At(s, i + 1) = NL THEN i + 2 ELSE i + 1
         IN  IF At(s, j) = TQ
             THEN [ok |-> TRUE, end |-> j,
                   val |-> [t |-> "str", v |-> SubSeq(s, b, j - 1),
                            raw |-> SubSeq(s, i, j)]]
             ELSE ParseFail(j)
    ELSE ParseFail(i)

\* the elements of an array, i after the opening bracket or a comma
RECURSIVE ParseElements(_, _, _)
ParseElements(s, i, acc) ==
    LET j == SkipSet(s, i, {SP, NL})
    IN  IF At(s, j) = RB THEN [ok |-> TRUE, end |-> j, elems |-> acc]
        ELSE LET e == ParseString(s, j)
             IN  IF ~e.ok THEN ParseFail(e.at)
                 ELSE LET k == SkipSet(s, e.end + 1, {SP, NL})
                      IN  IF At(s, k) = COMMA
                          THEN ParseElements(s, k + 1, Append(acc, e.val.v))
                          ELSE IF At(s, k) = RB
                          THEN [ok |-> TRUE, end |-> k,
                                elems |-> Append(acc, e.val.v)]
                          ELSE ParseFail(k)

ParseValue(s, i) ==
    IF At(s, i) \in {DQ, TQ} THEN ParseString(s, i)
    ELSE IF At(s, i) = LB
    THEN LET a == ParseElements(s, i + 1, <<>>)
         IN  IF a.ok
             THEN [ok |-> TRUE, end |-> a.end,
                   val |-> [t |-> "arr", v |-> a.elems,
                            raw |-> SubSeq(s, i, a.end)]]
             ELSE ParseFail(a.at)
    ELSE IF At(s, i) \in BareTokens
    THEN [ok |-> TRUE, end |-> i,
          val |-> [t |-> "bare", v |-> s[i], raw |-> <<s[i]>>]]
    ELSE ParseFail(i)

\* the rest of a line after a header or a value: blanks, then a comment or
\* the end of the line; the index of the newline (or Len + 1), 0 if invalid
LineRest(s, i) ==
    LET j == SkipSet(s, i, {SP})
    IN  IF j > Len(s) \/ s[j] = NL THEN j
        ELSE IF s[j] = HASH THEN RunEnd(s, j, {NL})
        ELSE 0

TopTable == [hdr |-> "", inst |-> 0]

IsProperPrefix(p, q) == Len(p) < Len(q) /\ SubSeq(q, 1, Len(p)) = p

\* the header h names a table that an earlier header of a table nested in
\* it has already made a plain table
ImplicitTable(headers, h) ==
    /\ \A k \in 1..Len(headers) : headers[k] # h
    /\ \E k \in 1..Len(headers) :
          IsProperPrefix(HeaderPath(h), HeaderPath(headers[k]))

Occurrences(seq, x) == Cardinality({k \in 1..Len(seq) : seq[k] = x})

\* tomlkit.parse: the key = value entries with the table each belongs to, and
\* the table headers in document order; not ok for a text that is not TOML
RECURSIVE ParseLines(_, _, _, _, _)
ParseLines(s, i, table, entries, headers) ==
    LET j == SkipSet(s, i, {SP})
    IN  IF j > Len(s) THEN [ok |-> TRUE, entries |-> entries, headers |-> headers]
        ELSE IF s[j] = NL THEN ParseLines(s, j + 1, table, entries, headers)
        ELSE IF s[j] = HASH
        THEN ParseLines(s, RunEnd(s, j, {NL}) + 1, table, entries, headers)
        ELSE IF s[j] \in HeaderTokens
        THEN LET r == LineRest(s, j + 1)
             IN  IF r = 0 THEN ParseFail(SkipSet(s, j + 1, {SP}))
                 ELSE IF ~HeaderIsArray(s[j]) /\ Occurrences(headers, s[j]) > 0
                 THEN ParseFail(j)
                 ELSE IF HeaderIsArray(s[j]) /\ ImplicitTable(headers, s[j])
                 THEN ParseFail(j)
                 ELSE ParseLines(s, r + 1,
                          [hdr |-> s[j], inst |-> Occurrences(headers, s[j]) + 1],
                          entries, Append(headers, s[j]))
        ELSE IF s[j] \in KeyTokens
        THEN LET e == SkipSet(s, j + 1, {SP})
                 v == ParseValue(s, SkipSet(s, e + 1, {SP}))
                 r == LineRest(s, v.end + 1)
             IN  IF At(s, e) # EQ THEN ParseFail(e)
                 ELSE IF ~v.ok THEN ParseFail(v.at)
                 ELSE IF r = 0 THEN ParseFail(SkipSet(s, v.end + 1, {SP}))
                 ELSE IF \E k \in 1..Len(entries) :
                            entries[k].table = table /\ entries[k].key = s[j]
                 THEN ParseFail(j)
                 ELSE ParseLines(s, r + 1, table,
                          Append(entries, [table |-> table, key |-> s[j], val |-> v.val]),
                          headers)
        ELSE ParseFail(j)

tomlkit_parse(text) == ParseLines(text, 1, TopTable, <<>>, <<>>)

\* key_name in table, table[key_name]
HasKey(doc, table, key_name) ==
    \E k \in 1..Len(doc.entries) :
        doc.entries[k].table = table /\ doc.entries[k].key = key_name

KeyValue(doc, table, key_name) ==
    doc.entries[CHOOSE k \in 1..Len(doc.entries) :
        doc.entries[k].table = table /\ doc.entries[k].key = key_name].val

\* the distinct elements of a sequence in the order of their first occurrence
\* (the key order of a dict)
RECURSIVE FirstOccurrences(_, _)
FirstOccurrences(seq, acc) ==
    IF seq = <<>> THEN acc
    ELSE FirstOccurrences(Tail(seq),
             IF \E k \in 1..Len(acc) : acc[k] = Head(seq) THEN acc
             ELSE Append(acc, Head(seq)))

----------------------------------------------------------------------------
(* _search_table_arrays_for_key, _find_all_keys_in_toml *)

\* the items of one [[table.subtable]] array that hold the key
RECURSIVE ItemValues(_, _, _, _)
ItemValues(doc, h, key_name, inst) ==
    IF inst > Occurrences(doc.headers, h) THEN <<>>
    ELSE LET item == [hdr |-> h, inst |-> inst]
         IN  (IF HasKey(doc, item, key_name)
              THEN <<KeyValue(doc, item, key_name)>> ELSE <<>>)
             \o ItemValues(doc, h, key_name, inst + 1)

\* faulty variant: the tables nested deeper count as subtables too
RECURSIVE SubtablesAnyDepth(_, _)
SubtablesAnyDepth(headers, tname) ==
    IF headers = <<>> THEN <<>>
    ELSE (IF Len(HeaderPath(Head(headers))) >= 2 /\ HeaderPath(Head(headers))[1] = tname
          THEN <<Head(headers)>> ELSE <<>>)
         \o SubtablesAnyDepth(Tail(headers), tname)

\* the headers of the subtables of the top-level table named tname
RECURSIVE SubtablesOf(_, _)
SubtablesOf(headers, tname) ==
    IF headers = <<>> THEN <<>>
    ELSE (IF Len(HeaderPath(Head(headers))) = 2 /\ HeaderPath(Head(headers))[1] = tname
          THEN <<Head(headers)>> ELSE <<>>)
         \o SubtablesOf(Tail(headers), tname)

\* isinstance(subtable_value, list)
RECURSIVE ArraysOnly(_)
ArraysOnly(headers) ==
    IF headers = <<>> THEN <<>>
    ELSE (IF HeaderIsArray(Head(headers)) THEN <<Head(headers)>> ELSE <<>>)
         \o ArraysOnly(Tail(headers))

\* table_value.values() of the top-level table named tname: the headers of
\* its subtables in the order of the dict; the ones that are lists are kept
SubtableArrays(doc, tname) ==
    ArraysOnly(FirstOccurrences(SubtablesOf(doc.headers, tname), <<>>))

RECURSIVE ValuesOfArrays(_, _, _)
ValuesOfArrays(doc, hs, key_name) ==
    IF hs = <<>> THEN <<>>
    ELSE ItemValues(doc, Head(hs), key_name, 1)
             \o ValuesOfArrays(doc, Tail(hs), key_name)

search_table_arrays_for_key(doc, tname, key_name) ==
    IF \E k \in 1..Len(doc.headers) :
           HeaderPath(doc.headers[k]) = <<tname>> /\ HeaderIsArray(doc.headers[k])
    THEN <<>>   \* not a dict
    ELSE ValuesOfArrays(doc, SubtableArrays(doc, tname), key_name)

RECURSIVE SearchTables(_, _, _)
SearchTables(doc, tnames, key_name) ==
    IF tnames = <<>> THEN <<>>
    ELSE search_table_arrays_for_key(doc, Head(tnames), key_name)
             \o SearchTables(doc, Tail(tnames), key_name)

\* data.values(): the names of the top-level tables in the order of the dict
TopLevelTables(doc) ==
    FirstOccurrences([k \in 1..Len(doc.headers) |-> HeaderPath(doc.headers[k])[1]], <<>>)

find_all_keys_in_toml(doc, key_name) ==
    (IF HasKey(doc, TopTable, key_name)
     THEN <<KeyValue(doc, TopTable, key_name)>> ELSE <<>>)
    \o SearchTables(doc, TopLevelTables(doc), key_name)

----------------------------------------------------------------------------
(* find_valid_toml_matches *)

\* tomlkit.dumps({key_name: value}) without "key_name = ": the value as
\* written in the document
extract_normalized_value(key_name, parsed_value_raw) == parsed_value_raw.raw

unwrap_tomlkit_value(value) == value.v

\* the pattern (key_name)\s*=\s*(escaped_value) tried at position i
PatternAt(s, i, key_name, normalized_value) ==
    LET e == SkipSet(s, i + 1, {SP, NL})
        v == SkipSet(s, e + 1, {SP, NL})
    IN  IF At(s, i) = key_name /\ At(s, e) = EQ
           /\ StartsWithAt(s, v, normalized_value)
        THEN [ok |-> TRUE, start |-> i, end |-> v + Len(normalized_value) - 1]
        ELSE NoMatch

\* pattern.finditer(expanded_content)
RECURSIVE FindIter(_, _, _, _)
FindIter(s, i, key_name, normalized_value) ==
    IF i > Len(s) THEN <<>>
    ELSE LET m == PatternAt(s, i, key_name, normalized_value)
         IN  IF m.ok THEN <<m>> \o FindIter(s, m.end + 1, key_name, normalized_value)
             ELSE FindIter(s, i + 1, key_name, normalized_value)

\* config_content.rfind("\n", 0, start_pos) + 1, as a 1-based position
RECURSIVE LineStart(_, _)
LineStart(s, pos) ==
    IF pos = 1 \/ s[pos - 1] = NL THEN pos ELSE LineStart(s, pos - 1)

\* text[:pos].count("\n") for the 1-based position pos: newlines before it
NewlinesBefore(s, pos) == Cardinality({k \in 1..(pos - 1) : s[k] = NL})

ParsedWithKey(doc, key_name) == doc.ok /\ HasKey(doc, TopTable, key_name)

is_valid_toml_match(s, start_pos, end_pos, key_name) ==
    ParsedWithKey(tomlkit_parse(SubSeq(s, LineStart(s, start_pos), end_pos)), key_name)

\* faulty variant: no record of the positions found
NeverFound(results, snippet_start) == FALSE

\* snippet_start in already_found_positions
AlreadyFound(results, snippet_start) ==
    \E k \in 1..Len(results) : results[k].pos = snippet_start

\* the loop over the regex matches of one value
RECURSIVE MatchesOfValue(_, _, _, _, _)
MatchesOfValue(s, key_name, value, hits, results) ==
    IF hits = <<>> THEN results
    ELSE LET m == Head(hits)
             found == AlreadyFound(results, m.start)
         IN  MatchesOfValue(s, key_name, value, Tail(hits),
                 IF found \/ ~is_valid_toml_match(s, m.start, m.end, key_name)
                 THEN results
                 ELSE Append(results,
                          [snippet |-> SubSeq(s, m.start, m.end),
                           value |-> unwrap_tomlkit_value(value),
                           start_line |-> NewlinesBefore(s, m.start),
                           end_line |-> NewlinesBefore(s, m.end + 1),
                           indent |-> m.start - LineStart(s, m.start),
                           pos |-> m.start]))

\* the loop over parsed_values_raw
RECURSIVE MatchesOfValues(_, _, _, _)
MatchesOfValues(s, key_name, values, results) ==
    IF values = <<>> THEN results
    ELSE MatchesOfValues(s, key_name, Tail(values),
             MatchesOfValue(s, key_name, Head(values),
                 FindIter(s, 1, key_name,
                          extract_normalized_value(key_name, Head(values))),
                 results))

\* "${" in text
has_variable_syntax(text) ==
    \E k \in 1..(Len(text) - 1) : text[k] = "$" /\ text[k + 1] = "{"

\* re.findall(r"\$\{([^}]+)\}", error_line), from position i
RECURSIVE VarNamesFrom(_, _)
VarNamesFrom(line, i) ==
    IF i > Len(line) THEN <<>>
    ELSE LET j == RunEnd(line, i + 2, {"}"})
         IN  IF StartsWithAt(line, i, <<"$", "{">>) /\ j <= Len(line) /\ j > i + 2
             THEN <<SubSeq(line, i + 2, j - 1)>> \o VarNamesFrom(line, j + 1)
             ELSE VarNamesFrom(line, i + 1)

\* ", ".join(var_names)
RECURSIVE JoinNames(_)
JoinNames(var_names) ==
    IF Len(var_names) = 1 THEN var_names[1]
    ELSE var_names[1] \o <<", ">> \o JoinNames(Tail(var_names))

\* _get_unquoted_variable_hint: the lines of the hint, none if it does not apply
get_unquoted_variable_hint(error_line) ==
    IF /\ has_variable_syntax(error_line)
       /\ \E k \in 1..Len(error_line) : error_line[k] = EQ
       /\ VarNamesFrom(error_line, 1) # <<>>
    THEN << <<"  Hint: Variable(s) not expanded: ">>
                \o JoinNames(VarNamesFrom(error_line, 1)) >>
    ELSE <<>>

\* the line tomlkit names in its error for position at ("... at line N col M")
ErrorLine(text, at) ==
    IF at > Len(text) THEN Len(SplitLines(text))
    ELSE NewlinesBefore(text, at) + 1

\* _extract_toml_error_context: the lines of the message of the ValueError
extract_toml_error_context(at, text) ==
    LET line_num == ErrorLine(text, at)
        lines    == Split(text)
    IN  << <<"Invalid TOML syntax: ", "at line ", ToString(line_num)>> >>
        \o (IF 0 < line_num /\ line_num <= Len(lines)
            THEN << <<"  Line ", ToString(line_num), ": ">> \o lines[line_num] >>
                 \o get_unquoted_variable_hint(lines[line_num])
            ELSE <<>>)

\* find_valid_toml_matches after the document is parsed
MatchesInDoc(doc, expanded_content, key_name) ==
    IF ~doc.ok
    THEN [outcome |-> "ValueError", matches |-> <<>>,
          message |-> extract_toml_error_context(doc.at, expanded_content)]
    ELSE [outcome |-> "ok",
          matches |-> MatchesOfValues(expanded_content, key_name,
                          find_all_keys_in_toml(doc, key_name), <<>>)]

\* find_valid_toml_matches(config_obj, key_name) on the expanded content
find_valid_toml_matches(expanded_content, key_name) ==
    MatchesInDoc(tomlkit_parse(expanded_content), expanded_content, key_name)

----------------------------------------------------------------------------
(* The files under the search root *)

Files ==
    (<<"a.star">> :> <<"code_a", NL>>)
    @@ (<<"b.star">> :> <<"code_b">>)
    @@ (<<"d", "/", "a.star">> :> <<"code_d", NL, "more", NL>>)
    @@ (<<"q.star">> :> <<"code_q", TQ, NL>>)
    @@ (<<"a.sh">> :> <<"echo", NL>>)
    @@ (<<"b.sh">> :> <<"ls", NL>>)
    @@ (<<"c.sh">> :> <<"echo", CR, NL>>)

\* find_file: the file exists under the root
find_file(filename) == filename \in DOMAIN Files

\* faulty variant: the content is never looked at
NeverTripleQuotes(text) == FALSE

\* main: the directory given as file_path_root
file_path_root == "root"

\* _report_file_not_found: the lines printed before sys.exit(1)
report_file_not_found(script_type, path_str) ==
    << <<"Error: Could not find ", script_type>>,
       <<"  Script reference: ">> \o path_str,
       <<"  Search location: ", file_path_root>> >>

\* "'''" in content
HasTripleQuotes(text) == \E k \in 1..Len(text) : text[k] = TQ

\* faulty variant: the bytes of the file as they are
RawScriptContent(bytes) == bytes

\* the script content that gets encoded: the file is read as text and
\* .replace("\r\n", "\n").replace("\r", "\n") is applied
normalized_script_content(bytes) ==
    StrReplace(StrReplace(bytes, <<CR, NL>>, <<NL>>), <<CR>>, <<NL>>)

\* base64.b64encode(...).decode("ascii") of the script contents
b64encode(bytes) ==
    CASE bytes = <<"echo", NL>>     -> "ZWNobwo="
      [] bytes = <<"ls", NL>>       -> "bHMK"
      [] bytes = <<"echo", CR, NL>> -> "ZWNobw0K"

\* openssl base64 -d -A of the payload
b64decode(payload) ==
    CASE payload = "ZWNobwo=" -> <<"echo", NL>>
      [] payload = "bHMK"     -> <<"ls", NL>>
      [] payload = "ZWNobw0K" -> <<"echo", CR, NL>>
      [] OTHER                -> <<>>

\* " " * indent
RECURSIVE Spaces(_)
Spaces(n) == IF n = 0 THEN <<>> ELSE <<SP>> \o Spaces(n - 1)

----------------------------------------------------------------------------
(* inline_starlark_script: the body of the loop for one match *)

\* what the loop body does with a match: the fatal condition it stops on, or
\* the replacement text it passes to replace_lines
starlark_match(m) ==
    IF ~find_file(m.value)
    THEN [outcome |-> "FileNotFound",
          report |-> report_file_not_found("Starlark script", m.value)]
    ELSE IF HasTripleQuotes(Files[m.value]) THEN [outcome |-> "TripleQuotes"]
    ELSE [outcome |-> "replace",
          replacement |-> Spaces(m.indent) \o <<"source", SP, EQ, SP, TQ, NL>>
                              \o Files[m.value] \o <<TQ>>]

----------------------------------------------------------------------------
(* _replace_shell_script_with_inline, _process_shell_script_match *)

\* " ".join(json.dumps(arg) for arg in script_args), after a blank
RECURSIVE QuotedArgs(_)
QuotedArgs(script_args) ==
    IF script_args = <<>> THEN <<>>
    ELSE <<SP, DQ>> \o Head(script_args) \o <<DQ>> \o QuotedArgs(Tail(script_args))

replace_shell_script_with_inline(script_path, script_args) ==
    <<"command", SP, EQ, SP, LB, DQ, "sh", DQ, COMMA, SP, DQ, "-c", DQ, COMMA,
      SP, TQ, NL,
      "tmpfile=$(mktemp)", NL,
      "trap 'rm -f \"$tmpfile\"' EXIT", NL,
      "openssl base64 -d -A <<'FIXEDIT_SCRIPT_EOF' >\"$tmpfile\"", NL,
      b64encode(normalized_script_content(Files[script_path])), NL,
      "FIXEDIT_SCRIPT_EOF", NL,
      "sh \"$tmpfile\"">> \o QuotedArgs(script_args) \o <<TQ, RB>>

\* script_path_str.endswith(".sh")
EndsWithSh(path) == path # <<>> /\ path[Len(path)] \in {"a.sh", "b.sh", "c.sh", "missing.sh"}

shell_match(m) ==
    LET command_array == m.value
        script_path_str == command_array[1]
        script_args == Tail(command_array)
    IN  IF command_array = <<>> THEN [outcome |-> "InvalidCommandArray"]
        ELSE IF \E k \in 1..Len(script_args) : HasTripleQuotes(script_args[k])
        THEN [outcome |-> "TripleQuotes"]
        ELSE IF ~EndsWithSh(script_path_str) THEN [outcome |-> "skip"]
        ELSE IF ~find_file(script_path_str)
        THEN [outcome |-> "FileNotFound",
              report |-> report_file_not_found("shell script", script_path_str)]
        ELSE [outcome |-> "replace",
              replacement |-> Spaces(m.indent)
                  \o replace_shell_script_with_inline(script_path_str, script_args)]

----------------------------------------------------------------------------
(* _add_config_header *)

\* faulty variant: only the first config file gets a header
HeaderForFirstOnly(combined, config_file) ==
    IF combined # <<>> THEN <<>>
    ELSE << <<"# From file: ", config_file.name, NL>> >>

add_config_header(combined, config_file) ==
    (IF combined # <<>> THEN <<<<NL>>>> ELSE <<>>)
    \o << <<NL>>,
          <<"# ========================================", NL>>,
          <<"# From file: ", config_file.name, NL>>,
          <<"# No version tracking info found", NL>>,
          <<"# ========================================", NL, NL>> >>

----------------------------------------------------------------------------
(* Inputs *)

\* all concatenations of at most n pieces
Texts(pieces, n) ==
    {Concat(ps) : ps \in UNION {[1..k -> pieces] : k \in 0..n}}

ExPieces ==
    { <<"$", "{", "A", "}">>, <<"$", "{", "A", ":", "-">>, <<"}">>,
      <<"$", "A">>, <<"x">>, <<"/">> }

ContentPieces ==
    { <<"x">>, <<NL>>, <<"$", "{", "M", "}">>,
      <<"$", "{", "A", ":", "-", "d", "}">> }

ReplacementTexts == { <<>>, <<"r", NL, "$", "{", "M", "}">> }

VarMaps ==
    { <<>>,
      <<[name |-> <<"A">>, value |-> <<"v">>]>>,
      <<[name |-> <<"M">>, value |-> <<"v", NL, "w">>],
        [name |-> <<"A">>, value |-> <<"v">>]>> }

ContentVarMaps ==
    { <<>>,
      <<[name |-> <<"M">>, value |-> <<"v", NL, "w">>],
        [name |-> <<"A">>, value |-> <<"v">>]>> }

NoCall == [n |-> 0, exp_start |-> 0, exp_end |-> 0,
           replacement_text |-> <<>>, outcome |-> "none"]

NoResponse == [status |-> 0, serial |-> "", token |-> <<>>]

\* the token server has not been started
ServerIdle ==
    /\ device_tokens = <<>> /\ threads = <<>> /\ served = 0
    /\ uuid_count = 0 /\ response = NoResponse /\ rotated = {}

\* no key search has been started
TomlIdle == toml_text = <<>> /\ keys_found = <<>> /\ matches_found = <<>>

\* main has not been started
MainIdle ==
    /\ config_files = <<>> /\ inline_starlark = FALSE /\ inline_shell = FALSE
    /\ cur = 0 /\ content = <<>> /\ config_content = <<>>
    /\ matches = <<>> /\ mi = 0 /\ warnings = 0
    /\ combined_content = <<>> /\ output = [written |-> FALSE, text |-> <<>>]
    /\ error = "none" /\ report = <<>> /\ exit_code = -1 /\ pc = "idle"

----------------------------------------------------------------------------
(* The expander applied to a text, and again to its own result *)

InitExpand ==
    /\ path_vars \in VarMaps
    /\ ex_text \in Texts(ExPieces, MaxPieces)
    /\ ex_results = <<>> /\ ex_defaults = <<>> /\ ex_permuted = <<>>
    /\ original_lines = <<>> /\ expanded_lines = <<>> /\ line_map = <<>>
    /\ text0 = <<>> /\ call = NoCall
    /\ MainIdle /\ ServerIdle /\ TomlIdle

Expand ==
    /\ ex_results = <<>>
    /\ ex_results' = <<expand_path_variables(ex_text, path_vars)>>
    /\ UNCHANGED <<tomlVars, serverVars, path_vars, ex_text, ex_defaults, ex_permuted, objVars, contentVars, mainVars>>

ExpandAgain ==
    /\ Len(ex_results) = 1
    /\ ex_results' = Append(ex_results,
                            expand_path_variables(ex_results[1], path_vars))
    /\ UNCHANGED <<tomlVars, serverVars, path_vars, ex_text, ex_defaults, ex_permuted, objVars, contentVars, mainVars>>

\* expand_default_values called on its own
ExpandDefaults ==
    /\ ex_defaults = <<>>
    /\ ex_defaults' = <<expand_default_values(ex_text, path_vars)>>
    /\ UNCHANGED <<tomlVars, serverVars, path_vars, ex_text, ex_results, ex_permuted, objVars, contentVars, mainVars>>

NextExpand == Expand \/ ExpandAgain \/ ExpandDefaults

SpecExpand == InitExpand /\ [][NextExpand]_vars

----------------------------------------------------------------------------
(* The expander applied with the entries of the map in two orders *)

OrderPieces ==
    { <<"$", "A">>, <<"$", "{", "A", "}">>, <<"$", "B">>, <<"$", "{">>,
      <<"}">>, <<"x">> }

\* maps of two entries: plain values, the value of one entry the name of the
\* other, and values that hold $NAME and ${NAME} of the other entry
OrderVarMaps ==
    { <<[name |-> <<"A">>, value |-> <<"v">>],
        [name |-> <<"B">>, value |-> <<"w">>]>>,
      <<[name |-> <<"A">>, value |-> <<"B">>],
        [name |-> <<"B">>, value |-> <<"v">>]>>,
      <<[name |-> <<"A">>, value |-> <<"$", "B">>],
        [name |-> <<"B">>, value |-> <<"v">>]>>,
      <<[name |-> <<"B">>, value |-> <<"v">>],
        [name |-> <<"A">>, value |-> <<"$", "{", "B", "}">>]>> }

\* the same entries as V in every other order of path_vars.items()
Orderings(V) ==
    {[i \in 1..Len(V) |-> V[p[i]]] : p \in Permutations(1..Len(V))} \ {V}

InitOrder ==
    /\ path_vars \in OrderVarMaps
    /\ ex_text \in Texts(OrderPieces, MaxOrderPieces)
    /\ ex_results = <<>> /\ ex_defaults = <<>> /\ ex_permuted = <<>>
    /\ original_lines = <<>> /\ expanded_lines = <<>> /\ line_map = <<>>
    /\ text0 = <<>> /\ call = NoCall
    /\ MainIdle /\ ServerIdle /\ TomlIdle

\* expand_path_variables(ex_text, W) for the map W
ExpandPermuted(W) ==
    /\ ex_permuted = <<>>
    /\ ex_permuted' = <<[path_vars |-> W,
                         result |-> expand_path_variables(ex_text, W)]>>
    /\ UNCHANGED <<tomlVars, serverVars, path_vars, ex_text, ex_results, ex_defaults, objVars, contentVars, mainVars>>

NextOrder ==
    \/ Expand
    \/ \E W \in Orderings(path_vars) : ExpandPermuted(W)

SpecOrder == InitOrder /\ [][NextOrder]_vars

----------------------------------------------------------------------------
(* A ConfigContent under construction and replace_lines calls *)

InitContent ==
    /\ path_vars \in ContentVarMaps
    /\ text0 \in Texts(ContentPieces, MaxContentPieces)
    /\ LET c == ConfigContentInit(text0, path_vars)
       IN  /\ original_lines = c.original_lines
           /\ expanded_lines = c.expanded_lines
           /\ line_map = c.line_map
    /\ call = NoCall
    /\ ex_text = <<>> /\ ex_results = <<>> /\ ex_defaults = <<>>
    /\ ex_permuted = <<>>
    /\ MainIdle /\ ServerIdle /\ TomlIdle

ReplaceLines(exp_start, exp_end, replacement_text) ==
    /\ call.n < MaxCalls
    /\ LET r == replace_lines(original_lines, line_map, exp_start, exp_end,
                              replacement_text)
           b == build_expanded(r.original_lines, path_vars)
       IN  /\ call' = [n |-> call.n + 1, exp_start |-> exp_start,
                       exp_end |-> exp_end,
                       replacement_text |-> replacement_text,
                       outcome |-> r.outcome]
           /\ original_lines' = r.original_lines
           /\ IF r.outcome = "ok"
              THEN /\ expanded_lines' = b.expanded_lines
                   /\ line_map' = b.line_map
              ELSE UNCHANGED <<expanded_lines, line_map>>
    /\ UNCHANGED <<tomlVars, serverVars, path_vars, text0, expVars, mainVars>>

NextContent ==
    \E exp_start \in 0..(Len(expanded_lines) - 1) :
        \E exp_end \in exp_start..(Len(expanded_lines) - 1) :
            \E replacement_text \in ReplacementTexts :
                ReplaceLines(exp_start, exp_end, replacement_text)

SpecContent == InitContent /\ [][NextContent]_vars

----------------------------------------------------------------------------
(* The key search applied to a document *)

TomlKeyLines ==
    { <<SP, SP, "script", SP, EQ, SP, DQ, "a.star", DQ, NL>>,
      <<SP, SP, "script", SP, EQ, SP, DQ, "b.star", DQ, NL>> }

\* a table header, or none (the keys before the first header), and a key
TomlBlocks ==
    {l : l \in TomlKeyLines}
    \cup {<<h, NL>> \o l : h \in HeaderTokens, l \in TomlKeyLines}

InitToml ==
    /\ toml_text \in Texts(TomlBlocks, MaxTomlBlocks)
    /\ keys_found = <<>> /\ matches_found = <<>>
    /\ path_vars = <<>>
    /\ ex_text = <<>> /\ ex_results = <<>> /\ ex_defaults = <<>>
    /\ ex_permuted = <<>>
    /\ original_lines = <<>> /\ expanded_lines = <<>> /\ line_map = <<>>
    /\ text0 = <<>> /\ call = NoCall
    /\ MainIdle /\ ServerIdle

otherVars == <<path_vars, expVars, objVars, contentVars, mainVars, serverVars>>

\* _find_all_keys_in_toml(tomlkit.parse(text), "script")
FindAllKeys ==
    /\ keys_found = <<>> /\ tomlkit_parse(toml_text).ok
    /\ keys_found' = <<find_all_keys_in_toml(tomlkit_parse(toml_text), "script")>>
    /\ UNCHANGED <<toml_text, matches_found, otherVars>>

\* find_valid_toml_matches on a ConfigContent of the text
FindValidMatches ==
    /\ matches_found = <<>>
    /\ matches_found' = <<find_valid_toml_matches(toml_text, "script")>>
    /\ UNCHANGED <<toml_text, keys_found, otherVars>>

NextToml == FindAllKeys \/ FindValidMatches

SpecToml == InitToml /\ [][NextToml]_vars

----------------------------------------------------------------------------
(* Inputs of main *)

KeyLine(key, value) == <<SP, SP, key, SP, EQ, SP>> \o value

Quoted(path) == <<DQ>> \o path \o <<DQ>>

\* the blocks the documents are put together from
Blocks ==
    { <<"[[p.s]]", NL>> \o KeyLine("script", Quoted(<<"a.star">>)) \o <<NL>>,
      <<"[[p.s]]", NL>> \o KeyLine("script", Quoted(<<"b.star">>)) \o <<NL>>,
      <<"[[p.s]]", NL>>
          \o KeyLine("script", Quoted(<<"$", "{", "D", "}", "/", "a.star">>)) \o <<NL>>,
      <<HASH, SP, "$", "{", "D", "}", SP, "script", SP, EQ, SP, DQ, "a.star", DQ, NL>>,
      <<"[[o.e]]", NL>> \o KeyLine("command", <<LB>> \o Quoted(<<"a.sh">>) \o <<RB>>)
          \o <<NL>>,
      <<"[[o.e]]", NL>>
          \o KeyLine("command", <<LB>> \o Quoted(<<"tool.bin">>) \o <<RB>>) \o <<NL>> }

\* config files that meet one fatal condition each, and two that meet none
Fragments ==
    { [name |-> "ok1.conf", exists |-> TRUE,
       text |-> <<"[[p.s]]", NL>> \o KeyLine("script", Quoted(<<"a.star">>))],
      [name |-> "ok2.conf", exists |-> TRUE,
       text |-> <<"[[o.e]]", NL>>
                    \o KeyLine("command", <<LB, NL, SP, SP, SP>> \o Quoted(<<"b.sh">>)
                           \o <<COMMA, SP>> \o Quoted(<<"arg">>) \o <<NL, SP, SP, RB>>)
                    \o <<NL>>],
      [name |-> "gone.conf", exists |-> FALSE, text |-> <<>>],
      [name |-> "dup.conf", exists |-> TRUE,
       text |-> <<"[[p.s]]", NL>> \o KeyLine("script", Quoted(<<"b.star">>))
                    \o <<NL, "[[p.s]]", NL>> \o KeyLine("script", Quoted(<<"a.star">>))
                    \o <<NL, HASH, SP, "script", SP, EQ, SP, DQ, "b.star", DQ>>
                    \o <<NL, "[[p.s]]", NL>> \o KeyLine("script", Quoted(<<"b.star">>))],
      [name |-> "note.conf", exists |-> TRUE,
       text |-> <<"[[p.s]]", NL>> \o KeyLine("script", Quoted(<<"a.star">>))
                    \o <<SP, HASH, SP, "note">>],
      [name |-> "bin.conf", exists |-> TRUE,
       text |-> <<"[[o.e]]", NL>>
                    \o KeyLine("command", <<LB>> \o Quoted(<<"tool.bin">>)
                           \o <<COMMA, SP>> \o Quoted(<<TQ>>) \o <<RB>>)],
      [name |-> "crlf.conf", exists |-> TRUE,
       text |-> <<"[[o.e]]", NL>>
                    \o KeyLine("command", <<LB>> \o Quoted(<<"c.sh">>) \o <<RB>>)],
      [name |-> "arr.conf", exists |-> TRUE,
       text |-> <<"[[o.e]]", NL>>
                    \o KeyLine("command", <<LB, NL, SP, SP, SP, "$", "{", "X", "}",
                                             NL, SP, SP, RB>>)],
      [name |-> "plain.conf", exists |-> TRUE,
       text |-> <<"[t]", NL>> \o KeyLine("script", Quoted(<<"a.star">>))],
      [name |-> "ref.conf", exists |-> TRUE,
       text |-> <<"[[p.s]]", NL>> \o KeyLine("script", Quoted(<<"$", "{", "D", "}", "/", "missing.star">>))
                    \o <<NL, "[[o.e]]", NL>>
                    \o KeyLine("command", <<LB>> \o Quoted(<<"missing.sh">>) \o <<RB>>)],
      [name |-> "quotes.conf", exists |-> TRUE,
       text |-> <<"[[p.s]]", NL>> \o KeyLine("script", Quoted(<<"q.star">>))],
      [name |-> "var.conf", exists |-> TRUE,
       text |-> <<"[[p.s]]", NL>> \o KeyLine("script", <<"$", "{", "S", "}">>)] }

MainVarMaps ==
    { <<>>,
      <<[name |-> <<"D">>, value |-> <<"d">>],
        [name |-> <<"S">>, value |-> <<DQ, "a.star", DQ, NL, HASH>>]>> }

\* one config file put together from blocks, or several fragments
ConfigFileLists ==
    {<<[name |-> "doc.conf", exists |-> TRUE, text |-> t]>> :
        t \in Texts(Blocks, MaxBlocks)}
    \cup UNION {[1..n -> Fragments] : n \in 2..MaxFiles}

NoOutput == [written |-> FALSE, text |-> <<>>]

Init ==
    /\ path_vars \in MainVarMaps
    /\ inline_starlark \in BOOLEAN
    /\ inline_shell \in BOOLEAN
    /\ config_files \in ConfigFileLists
    /\ cur = 1 /\ content = <<>> /\ config_content = <<>>
    /\ matches = <<>> /\ mi = 0 /\ warnings = 0
    /\ combined_content = <<>> /\ output = NoOutput
    /\ error = "none" /\ report = <<>> /\ exit_code = -1 /\ pc = "main"
    /\ original_lines = <<>> /\ expanded_lines = <<>> /\ line_map = <<>>
    /\ text0 = <<>> /\ call = NoCall
    /\ ex_text = <<>> /\ ex_results = <<>> /\ ex_defaults = <<>>
    /\ ex_permuted = <<>>
    /\ ServerIdle /\ TomlIdle

----------------------------------------------------------------------------
(* main, combine_configs, _process_config_file and the two inliners *)

\* sys.exit(1), or an exception nobody catches
Exit(kind) ==
    /\ error' = kind
    /\ report' = <<>>
    /\ exit_code' = 1
    /\ pc' = "exit"

\* _report_file_not_found has printed the lines and called sys.exit(1)
FileNotFoundExit(lines) ==
    /\ error' = "FileNotFound"
    /\ report' = lines
    /\ exit_code' = 1
    /\ pc' = "exit"

\* a handler that prints the error and goes on with the unchanged content
OnValueErrorContinue(next_pc) == next_pc

\* where _process_config_file goes on a ValueError of an inliner: its
\* handlers print the error and exit
OnValueError(next_pc) == "exit"

RaiseValueError(reason, message, next_pc) ==
    /\ error' = reason
    /\ report' = message
    /\ pc' = OnValueError(next_pc)
    /\ exit_code' = IF OnValueError(next_pc) = "exit" THEN 1 ELSE exit_code

\* _process_config_file up to the first inliner: the file is read
ProcessConfigFile ==
    /\ pc = "main" /\ cur <= Len(config_files)
    /\ IF ~config_files[cur].exists
       THEN Exit("ConfigNotFound") /\ UNCHANGED content
       ELSE /\ content' = config_files[cur].text
            /\ pc' = "starlark"
            /\ UNCHANGED <<error, report, exit_code>>
    /\ UNCHANGED <<tomlVars, serverVars, path_vars, expVars, objVars, contentVars, config_files,
                   inline_starlark, inline_shell, cur, config_content, matches,
                   mi, warnings, combined_content, output>>

\* an inliner up to its loop: the ConfigContent is built and the matches of
\* the key are found
\* the loop is entered with the matches, if there are any
EnterLoop(obj, r, loop_pc, next_pc) ==
    /\ config_content' = content
    /\ original_lines' = obj.original_lines
    /\ expanded_lines' = obj.expanded_lines
    /\ line_map' = obj.line_map
    /\ matches' = r.matches
    /\ mi' = Len(r.matches)
    /\ IF r.outcome = "ValueError" THEN RaiseValueError("InvalidToml", r.message, next_pc)
       ELSE /\ pc' = IF r.matches = <<>> THEN next_pc ELSE loop_pc
            /\ UNCHANGED <<error, report, exit_code>>
    /\ UNCHANGED <<tomlVars, serverVars, path_vars, expVars, contentVars, config_files,
                   inline_starlark, inline_shell, cur, content, warnings,
                   combined_content, output>>

\* the matches of the key are found in the expanded view of config_obj
FindMatches(obj, key_name, loop_pc, next_pc) ==
    EnterLoop(obj, find_valid_toml_matches(get_expanded(obj.expanded_lines), key_name),
              loop_pc, next_pc)

\* an inliner up to its loop: config_obj = ConfigContent(config_content,
\* path_vars), then the matches
BeginPass(key_name, loop_pc, next_pc) ==
    FindMatches(ConfigContentInit(content, path_vars), key_name, loop_pc, next_pc)

SkipPass(next_pc) ==
    /\ pc' = next_pc
    /\ UNCHANGED <<tomlVars, serverVars, path_vars, expVars, objVars, contentVars, config_files,
                   inline_starlark, inline_shell, cur, content, config_content,
                   matches, mi, warnings, combined_content, output, error,
                   report, exit_code>>

\* config_obj.replace_lines(...) has returned c: the views are rebuilt and the
\* loop goes on, or the ValueError is raised
Replaced(c, next_pc) ==
    IF c.outcome = "ValueError"
    THEN RaiseValueError("MultiLineConflict", c.message, next_pc)
         /\ UNCHANGED <<objVars, mi, warnings>>
    ELSE /\ original_lines' = c.original_lines
         /\ expanded_lines' = build_expanded(c.original_lines, path_vars).expanded_lines
         /\ line_map' = build_expanded(c.original_lines, path_vars).line_map
         /\ mi' = mi - 1
         /\ UNCHANGED <<warnings, error, report, exit_code, pc>>

\* one iteration of the loop over reversed(matches): r is what the loop body
\* does with the match m
MatchStep(m, r, next_pc) ==
    /\ IF r.outcome = "skip"
       THEN /\ warnings' = warnings + 1
            /\ mi' = mi - 1
            /\ UNCHANGED <<objVars, error, report, exit_code, pc>>
       ELSE IF r.outcome = "FileNotFound"
       THEN FileNotFoundExit(r.report) /\ UNCHANGED <<objVars, mi, warnings>>
       ELSE IF r.outcome # "replace"
       THEN Exit(r.outcome) /\ UNCHANGED <<objVars, mi, warnings>>
       ELSE IF m.start_line >= Len(line_map) \/ m.end_line >= Len(line_map)
       THEN Exit("IndexError") /\ UNCHANGED <<objVars, mi, warnings>>
       ELSE Replaced(replace_lines(original_lines, line_map, m.start_line,
                                   m.end_line, r.replacement), next_pc)
    /\ UNCHANGED <<tomlVars, serverVars, path_vars, expVars, contentVars, config_files,
                   inline_starlark, inline_shell, cur, content,
                   config_content, matches, combined_content, output>>

\* return config_obj.get_original()
ReturnPass(next_pc) ==
    /\ content' = get_original(original_lines)
    /\ pc' = next_pc
    /\ UNCHANGED <<tomlVars, serverVars, path_vars, expVars, objVars, contentVars, config_files,
                   inline_starlark, inline_shell, cur, config_content, matches,
                   mi, warnings, combined_content, output, error, report,
                   exit_code>>

InlineStarlarkScript ==
    /\ pc = "starlark"
    /\ IF inline_starlark THEN BeginPass("script", "starlark_loop", "shell")
       ELSE SkipPass("shell")

StarlarkMatch ==
    /\ pc = "starlark_loop" /\ mi >= 1
    /\ MatchStep(matches[mi], starlark_match(matches[mi]), "shell")

StarlarkReturn ==
    /\ pc = "starlark_loop" /\ mi = 0
    /\ ReturnPass("shell")

InlineShellScript ==
    /\ pc = "shell"
    /\ IF inline_shell THEN BeginPass("command", "shell_loop", "append")
       ELSE SkipPass("append")

ProcessShellScriptMatch ==
    /\ pc = "shell_loop" /\ mi >= 1
    /\ MatchStep(matches[mi], shell_match(matches[mi]), "append")

ShellReturn ==
    /\ pc = "shell_loop" /\ mi = 0
    /\ ReturnPass("append")

\* combine_configs: the header and the content are appended
AppendConfig ==
    /\ pc = "append"
    /\ combined_content' =
           combined_content \o add_config_header(combined_content, config_files[cur])
               \o <<content>>
    /\ cur' = cur + 1
    /\ pc' = "main"
    /\ UNCHANGED <<tomlVars, serverVars, path_vars, expVars, objVars, contentVars, config_files,
                   inline_starlark, inline_shell, content, config_content,
                   matches, mi, warnings, output, error, report, exit_code>>

\* main: the combined content is written to the output file
WriteOutput ==
    /\ pc = "main" /\ cur > Len(config_files)
    /\ output' = [written |-> TRUE, text |-> Concat(combined_content)]
    /\ exit_code' = 0
    /\ pc' = "done"
    /\ UNCHANGED <<tomlVars, serverVars, path_vars, expVars, objVars, contentVars, config_files,
                   inline_starlark, inline_shell, cur, content, config_content,
                   matches, mi, warnings, combined_content, error, report>>

Next ==
    \/ ProcessConfigFile
    \/ InlineStarlarkScript
    \/ StarlarkMatch
    \/ StarlarkReturn
    \/ InlineShellScript
    \/ ProcessShellScriptMatch
    \/ ShellReturn
    \/ AppendConfig
    \/ WriteOutput

Spec == Init /\ [][Next]_vars

----------------------------------------------------------------------------
(* The token-rotation server: example_server.py *)

BOOTSTRAP_TOKEN == <<"bootstrap-key-12345">>

Serials == {"dev1", "dev2"}

\* str(uuid.uuid4()): the n-th token generated, different from all others
Uuid(n) == <<"uuid", n>>

\* the headers of a request: serial is "" when the header is missing; the
\* Authorization header is missing (scheme ""), of another scheme, or
\* "Bearer " followed by the token, which may be empty
Header(scheme, token) == [scheme |-> scheme, token |-> token]

Request(endpoint, serial, authorization, json_ok) ==
    [endpoint |-> endpoint, serial |-> serial, authorization |-> authorization,
     json_ok |-> json_ok]

Endpoints == {"/metrics", "/generate-token"}

\* the requests a client can send when n tokens have been generated: it
\* knows the bootstrap token and the tokens generated so far
Requests(n) ==
    {Request(e, d, Header("Bearer", t), TRUE) :
        e \in Endpoints, d \in Serials,
        t \in {BOOTSTRAP_TOKEN} \cup {Uuid(k) : k \in 1..n}}
    \cup {Request(e, "", Header("Bearer", BOOTSTRAP_TOKEN), TRUE) : e \in Endpoints}
    \cup {Request(e, "dev1", h, TRUE) :
            e \in Endpoints,
            h \in {Header("", <<>>), Header("Basic", BOOTSTRAP_TOKEN),
                   Header("Bearer", <<>>)}}
    \cup {Request("/metrics", "dev1", Header("Bearer", Uuid(k)), FALSE) : k \in 1..n}

\* request.headers.get("serial")
get_device_serial(req) == req.serial

\* get_token_from_header: None (here the empty token) unless the header
\* starts with "Bearer "
get_token_from_header(req) ==
    IF req.authorization.scheme # "Bearer" THEN <<>>
    ELSE req.authorization.token

\* faulty variant: the check of /generate-token used for /metrics
AcceptBootstrapToo(req, tokens) ==
    LET serial == get_device_serial(req)
        token  == get_token_from_header(req)
    IN  IF serial = "" THEN [is_valid |-> FALSE, message |-> "Missing 'serial' header"]
        ELSE IF token = <<>>
        THEN [is_valid |-> FALSE, message |-> "Missing or invalid Authorization header"]
        ELSE IF serial \in DOMAIN tokens
        THEN [is_valid |-> token = tokens[serial], message |-> "Invalid token for device"]
        ELSE [is_valid |-> token = BOOTSTRAP_TOKEN, message |-> "Invalid bootstrap token"]

authenticate_generated_token_only(req, tokens) ==
    LET serial == get_device_serial(req)
        token  == get_token_from_header(req)
    IN  IF serial = "" THEN [is_valid |-> FALSE, message |-> "Missing 'serial' header"]
        ELSE IF token = <<>>
        THEN [is_valid |-> FALSE, message |-> "Missing or invalid Authorization header"]
        ELSE IF serial \notin DOMAIN tokens
        THEN [is_valid |-> FALSE, message |-> "Device not registered"]
        ELSE IF token = tokens[serial] THEN [is_valid |-> TRUE, message |-> "None"]
        ELSE [is_valid |-> FALSE, message |-> "Invalid token for device"]

\* faulty variant: the bootstrap token stays valid for a registered device
BootstrapAlwaysAccepted(req, tokens) ==
    LET serial == get_device_serial(req)
        token  == get_token_from_header(req)
    IN  IF serial = "" THEN [is_valid |-> FALSE, message |-> "Missing 'serial' header"]
        ELSE IF token = <<>>
        THEN [is_valid |-> FALSE, message |-> "Missing or invalid Authorization header"]
        ELSE IF token = BOOTSTRAP_TOKEN THEN [is_valid |-> TRUE, message |-> "None"]
        ELSE IF serial \in DOMAIN tokens /\ token = tokens[serial]
        THEN [is_valid |-> TRUE, message |-> "None"]
        ELSE [is_valid |-> FALSE, message |-> "Invalid token for device"]

authenticate_bootstrap_or_generated(req, tokens) ==
    LET serial == get_device_serial(req)
        token  == get_token_from_header(req)
    IN  IF serial = "" THEN [is_valid |-> FALSE, message |-> "Missing 'serial' header"]
        ELSE IF token = <<>>
        THEN [is_valid |-> FALSE, message |-> "Missing or invalid Authorization header"]
        ELSE IF serial \in DOMAIN tokens
        THEN IF token = tokens[serial] THEN [is_valid |-> TRUE, message |-> "None"]
             ELSE [is_valid |-> FALSE, message |-> "Invalid token for device"]
        ELSE IF token = BOOTSTRAP_TOKEN THEN [is_valid |-> TRUE, message |-> "None"]
        ELSE [is_valid |-> FALSE, message |-> "Invalid bootstrap token"]

IdleThread == [pc |-> "idle"]

InitServer ==
    /\ device_tokens = <<>>
    /\ threads = [t \in 1..MaxRequests |-> IdleThread]
    /\ served = 0 /\ uuid_count = 0
    /\ response = NoResponse /\ rotated = {}
    /\ path_vars = <<>>
    /\ ex_text = <<>> /\ ex_results = <<>> /\ ex_defaults = <<>>
    /\ ex_permuted = <<>>
    /\ original_lines = <<>> /\ expanded_lines = <<>> /\ line_map = <<>>
    /\ text0 = <<>> /\ call = NoCall
    /\ MainIdle /\ TomlIdle

restVars == <<path_vars, expVars, objVars, contentVars, mainVars, tomlVars>>

\* app.run: the server starts a thread for the request it receives
ReceiveRequest(t, req) ==
    /\ threads[t].pc = "idle" /\ t = served + 1
    /\ threads' = [threads EXCEPT ![t] = [pc |-> "auth", req |-> req]]
    /\ served' = served + 1
    /\ UNCHANGED <<device_tokens, uuid_count, response, rotated, restVars>>

\* the decorator has the result r of the authentication: 401, or on to the view
Decorated(t, r) ==
    /\ IF r.is_valid
       THEN /\ threads' = [threads EXCEPT ![t].pc = "view"]
            /\ UNCHANGED response
       ELSE /\ threads' = [threads EXCEPT ![t] = IdleThread]
            /\ response' = [status |-> 401, serial |-> threads[t].req.serial,
                            token |-> <<>>]
    /\ UNCHANGED <<device_tokens, served, uuid_count, rotated, restVars>>

require_generated_token(t) ==
    /\ threads[t].pc = "auth" /\ threads[t].req.endpoint = "/metrics"
    /\ Decorated(t, authenticate_generated_token_only(threads[t].req, device_tokens))

require_bootstrap_or_token(t) ==
    /\ threads[t].pc = "auth" /\ threads[t].req.endpoint = "/generate-token"
    /\ Decorated(t, authenticate_bootstrap_or_generated(threads[t].req, device_tokens))

receive_metrics(t) ==
    /\ threads[t].pc = "view" /\ threads[t].req.endpoint = "/metrics"
    /\ threads' = [threads EXCEPT ![t] = IdleThread]
    /\ response' = [status |-> IF threads[t].req.json_ok THEN 200 ELSE 400,
                    serial |-> threads[t].req.serial, token |-> <<>>]
    /\ UNCHANGED <<device_tokens, served, uuid_count, rotated, restVars>>

\* faulty variant: a device that has a token keeps it
StoredForNewDevice(tokens, serial, new_token) ==
    [s \in DOMAIN tokens \cup {serial} |->
        IF s \in DOMAIN tokens THEN tokens[s] ELSE new_token]

\* the dict with device_tokens[serial] = new_token
Stored(tokens, serial, new_token) ==
    [s \in DOMAIN tokens \cup {serial} |->
        IF s = serial THEN new_token ELSE tokens[s]]

generate_token(t) ==
    /\ threads[t].pc = "view" /\ threads[t].req.endpoint = "/generate-token"
    /\ uuid_count' = uuid_count + 1
    /\ device_tokens' = Stored(device_tokens, threads[t].req.serial,
                               Uuid(uuid_count + 1))
    /\ threads' = [threads EXCEPT ![t] = IdleThread]
    /\ response' = [status |-> 200, serial |-> threads[t].req.serial,
                    token |-> Uuid(uuid_count + 1)]
    /\ rotated' = rotated \cup
           {[serial |-> threads[t].req.serial,
             credential |-> get_token_from_header(threads[t].req),
             token |-> Uuid(uuid_count + 1)]}
    /\ UNCHANGED <<served, restVars>>

NextServer ==
    \E t \in 1..MaxRequests :
        \/ \E req \in Requests(uuid_count) : ReceiveRequest(t, req)
        \/ require_generated_token(t)
        \/ require_bootstrap_or_token(t)
        \/ receive_metrics(t)
        \/ generate_token(t)

SpecServer == InitServer /\ [][NextServer]_vars

----------------------------------------------------------------------------
(* Properties of the inliner passes and of main *)

\* the match the loop of the running pass is about to handle will be replaced
AboutToReplace ==
    \/ pc = "starlark_loop" /\ mi >= 1
           /\ starlark_match(matches[mi]).outcome = "replace"
    \/ pc = "shell_loop" /\ mi >= 1
           /\ shell_match(matches[mi]).outcome = "replace"

\* expanded lines start_line..end_line hold the snippet of m, after its indent
SnippetAt(lines, m) ==
    /\ m.end_line < Len(lines)
    /\ LET txt == Join(SubSeq(lines, m.start_line + 1, m.end_line + 1))
       IN  /\ Len(txt) >= m.indent + Len(m.snippet)
           /\ SubSeq(txt, m.indent + 1, m.indent + Len(m.snippet)) = m.snippet

\* C1: when replace_lines is called for a match, expanded lines
\* start_line..end_line of the ConfigContent still hold that match's snippet:
\* no earlier replacement of the pass has shifted or overwritten them
C1_SnippetStillAtMatch ==
    AboutToReplace => SnippetAt(expanded_lines, matches[mi])

\* C2: the start lines of the matches find_valid_toml_matches returns are
\* strictly increasing
C2_MatchesInDocumentOrder ==
    \A k \in 1..(Len(matches) - 1) : matches[k].start_line < matches[k + 1].start_line

\* the loop of a pass is over and the pass is about to return
PassDone == pc \in {"starlark_loop", "shell_loop"} /\ mi = 0

\* the matches of the finished pass that were replaced
ReplacedMatches ==
    {k \in 1..Len(matches) :
        IF pc = "starlark_loop" THEN starlark_match(matches[k]).outcome = "replace"
        ELSE shell_match(matches[k]).outcome = "replace"}

\* the lines of the fragment the pass was given that lie in no replaced range
RECURSIVE OutsideLines(_, _, _)
OutsideLines(lines, lm, i) ==
    IF i > Len(lines) THEN <<>>
    ELSE (IF \E k \in ReplacedMatches :
                 \E e \in matches[k].start_line..matches[k].end_line :
                     e + 1 <= Len(lm) /\ lm[e + 1] = i - 1
          THEN <<>> ELSE <<lines[i]>>)
         \o OutsideLines(lines, lm, i + 1)

\* sub is a subsequence of seq
RECURSIVE IsSubsequence(_, _)
IsSubsequence(sub, seq) ==
    IF sub = <<>> THEN TRUE
    ELSE IF seq = <<>> THEN FALSE
    ELSE IF Head(sub) = Head(seq) THEN IsSubsequence(Tail(sub), Tail(seq))
    ELSE IsSubsequence(sub, Tail(seq))

\* C3: after an inliner pass, the lines of the fragment outside the ranges of
\* the replaced matches are in the result, unchanged, unexpanded and in order
C3_OutsideLinesKept ==
    PassDone =>
        IsSubsequence(
            OutsideLines(Split(config_content),
                         ConfigContentInit(config_content, path_vars).line_map, 1),
            Split(get_original(original_lines)))

\* C4: a fatal error ends the run with a non-zero exit and nothing written;
\* the output is written only after every fragment was processed without one
C4_NothingWrittenOnFatal ==
    /\ error # "none" => ~output.written /\ exit_code = 1 /\ pc = "exit"
    /\ output.written => error = "none" /\ cur > Len(config_files)

\* a fatal error in the second fragment, after the first one was appended
C4_Witness ==
    /\ pc = "exit" /\ error # "none"
    /\ cur = 2 /\ combined_content # <<>>
    /\ ~output.written

\* find_valid_toml_matches has just returned the matches (of the key
\* LocatedKey, in the text LocatedText) and no match was handled yet
JustLocated ==
    /\ error = "none"
    /\ \/ pc \in {"starlark_loop", "shell_loop"} /\ mi = Len(matches)
       \/ pc = "shell" /\ inline_starlark /\ matches = <<>>
       \/ pc = "append" /\ inline_shell /\ matches = <<>>

LocatedKey == IF pc \in {"starlark_loop", "shell"} THEN "script" ELSE "command"

LocatedText == get_expanded(expanded_lines)

\* position j of s is at the start of a line, after blanks only, and not
\* inside a multi-line string
AtLineStart(s, j) ==
    /\ \A k \in LineStart(s, j)..(j - 1) : s[k] = SP
    /\ Cardinality({k \in 1..(j - 1) : s[k] = TQ}) % 2 = 0

\* an occurrence of key_name = value outside comments and strings
KeyOccurrence(s, j, key_name) ==
    j \in 1..Len(s) /\ s[j] = key_name /\ AtLineStart(s, j)

\* the occurrence at position j is at top level or in a [[table.subtable]]
InSearchedTable(s, j) ==
    LET hs == {k \in 1..(j - 1) : s[k] \in HeaderTokens /\ AtLineStart(s, k)}
    IN  \/ hs = {}
        \/ LET h == s[CHOOSE k \in hs : \A l \in hs : l <= k]
           IN  HeaderIsArray(h) /\ Len(HeaderPath(h)) = 2

\* exactly one match is returned for the occurrence at position j, and its
\* snippet, parsed again, gives the value of the match for the key
OneMatchAt(s, j, key_name) ==
    /\ Cardinality({k \in 1..Len(matches) : matches[k].pos = j}) = 1
    /\ \A k \in 1..Len(matches) :
           matches[k].pos = j =>
               /\ tomlkit_parse(matches[k].snippet).ok
               /\ HasKey(tomlkit_parse(matches[k].snippet), TopTable, key_name)
               /\ KeyValue(tomlkit_parse(matches[k].snippet), TopTable, key_name).v
                      = matches[k].value

IsCommentLine(line) ==
    LET j == SkipSet(line, 1, {SP}) IN j <= Len(line) /\ line[j] = HASH

\* the line is a commented-out reference of the key: # key = value
IsCommentedKeyLine(line, key_name) ==
    IsCommentLine(line) /\ \E k \in 1..Len(line) : line[k] = key_name

\* the key of the pass that is running or has just returned
PassKey == IF pc = "starlark_loop" THEN "script" ELSE "command"

\* C14: no match of find_valid_toml_matches starts on a commented-out line,
\* and a pass leaves the commented-out references of its key unchanged
C14_CommentedKeysUntouched ==
    /\ JustLocated =>
           \A k \in 1..Len(matches) :
               ~IsCommentLine(expanded_lines[matches[k].start_line + 1])
    /\ PassDone =>
           \A k \in 1..Len(Split(config_content)) :
               IsCommentedKeyLine(Split(config_content)[k], PassKey) =>
                   Occurrences(original_lines, Split(config_content)[k])
                       >= Occurrences(Split(config_content), Split(config_content)[k])

\* the index of the "#" that starts the comment of a line, outside of a
\* basic string; Len + 1 for a line without a comment
RECURSIVE CommentStart(_, _, _)
CommentStart(line, i, in_string) ==
    IF i > Len(line) THEN i
    ELSE IF line[i] = DQ THEN CommentStart(line, i + 1, ~in_string)
    ELSE IF line[i] = HASH /\ ~in_string THEN i
    ELSE CommentStart(line, i + 1, in_string)

CommentOf(line) == SubSeq(line, CommentStart(line, 1, FALSE), Len(line))

EndsWith(line, c) ==
    Len(line) >= Len(c) /\ SubSeq(line, Len(line) - Len(c) + 1, Len(line)) = c

LinesWithComment(lines, c) ==
    Cardinality({k \in 1..Len(lines) : CommentOf(lines[k]) = c})

LinesEndingWith(lines, c) ==
    Cardinality({k \in 1..Len(lines) : EndsWith(lines[k], c)})

\* a key of the pass was replaced on a line that carries a trailing comment
InlinedLineHadComment ==
    /\ PassDone
    /\ \E k \in 1..Len(matches) :
           LET line == Split(config_content)[matches[k].start_line + 1]
           IN  /\ CommentOf(line) # <<>>
               /\ ~IsCommentLine(line)
               /\ LinesEndingWith(original_lines, <<TQ>>) > 0

\* C15: every comment of the input of a pass, on a line of its own or behind a
\* value, the line of an inlined key included, is still in the result of the pass
C15_CommentsPreserved ==
    PassDone =>
        \A k \in 1..Len(Split(config_content)) :
            LET c == CommentOf(Split(config_content)[k])
            IN  c # <<>> =>
                    LinesEndingWith(original_lines, c)
                        >= LinesWithComment(Split(config_content), c)

\* the shell pass is at a command match whose first element is not a .sh path
AtNonShMatch ==
    /\ pc = "shell_loop" /\ mi >= 1
    /\ matches[mi].value # <<>>
    /\ ~EndsWithSh(matches[mi].value[1])

\* the step of such a match: a warning, the entry as it was, on to the next match
NonFatalSkip ==
    /\ warnings' = warnings + 1
    /\ mi' = mi - 1
    /\ pc' = "shell_loop"
    /\ error' = "none" /\ exit_code' = exit_code
    /\ UNCHANGED objVars

\* C16: a command match whose first element does not end in .sh is not fatal,
\* whatever the other elements are: the shell inliner warns, leaves the entry
\* unchanged and goes on with the remaining matches
C16_NonShIsNonFatal == [][AtNonShMatch => NonFatalSkip]_vars

\* the Starlark pass is at a match whose script file exists under the root
AtFoundScript ==
    /\ pc = "starlark_loop" /\ mi >= 1
    /\ matches[mi].value \in DOMAIN Files

ScriptContent == Files[matches[mi].value]

ContentHasDelimiter == \E k \in 1..Len(ScriptContent) : ScriptContent[k] = TQ

\* the blanks in front of the key on its line in the text the pass was given
KeyIndentation ==
    SubSeq(ConfigContentInit(config_content, path_vars)
               .expanded_lines[matches[mi].start_line + 1],
           1, matches[mi].indent)

\* source = ''' , a newline, the content, ''' behind the key's indentation
InlineSource ==
    KeyIndentation \o <<"source", SP, EQ, SP, TQ, NL>> \o ScriptContent \o <<TQ>>

\* the lines of the text stand in the original view from the line the match
\* starts on
PutAtMatch(text) ==
    LET o == line_map[matches[mi].start_line + 1]
        n == Len(Split(text))
    IN  /\ Len(original_lines') >= o + n
        /\ SubSeq(original_lines', o + 1, o + n) = Split(text)

FileNotFoundReported == pc = "exit" /\ error = "FileNotFound"

\* the text of the fragment from the line the match starts on, variables as written
TextFromMatch ==
    LET lines == Split(config_content)
        o     == ConfigContentInit(config_content, path_vars)
                     .line_map[matches[mi].start_line + 1]
    IN  Join(SubSeq(lines, o + 1, Len(lines)))

\* the reference as written in the fragment: the first quoted string from there
LiteralReference ==
    LET i == RunEnd(TextFromMatch, 1, {DQ})
        j == RunEnd(TextFromMatch, i + 1, {DQ})
    IN  SubSeq(TextFromMatch, i + 1, j - 1)

\* the reference after variable expansion
ExpandedReference ==
    IF matches[mi].snippet[1] = "command" THEN matches[mi].value[1]
    ELSE matches[mi].value

Contains(line, sub) ==
    \E k \in 0..(Len(line) - Len(sub)) : SubSeq(line, k + 1, k + Len(sub)) = sub

Reports(sub) == \E k \in 1..Len(report) : Contains(report[k], sub)

\* C18: a script or .sh command file missing under the search root is fatal and
\* the report names the reference as written, its expanded form and the root
C18_ReportNamesLiteralReference ==
    FileNotFoundReported =>
        /\ exit_code = 1
        /\ Reports(LiteralReference)
        /\ Reports(ExpandedReference)
        /\ Reports(<<file_path_root>>)

\* the shell pass is at a match that it replaces by the wrapper
AtShellScript ==
    /\ pc = "shell_loop" /\ mi >= 1
    /\ shell_match(matches[mi]).outcome = "replace"

ScriptBytes == Files[matches[mi].value[1]]

\* the payload of the wrapper that the step has put in: its fifth line
PayloadPut == original_lines'[line_map[matches[mi].start_line + 1] + 5][1]

\* the bytes with every CR LF and every CR turned into LF
RECURSIVE WithLfEndings(_)
WithLfEndings(bytes) ==
    IF bytes = <<>> THEN <<>>
    ELSE IF Head(bytes) # CR THEN <<Head(bytes)>> \o WithLfEndings(Tail(bytes))
    ELSE IF Len(bytes) > 1 /\ bytes[2] = NL
    THEN <<NL>> \o WithLfEndings(SubSeq(bytes, 3, Len(bytes)))
    ELSE <<NL>> \o WithLfEndings(Tail(bytes))

\* C19 as stated: the payload of the wrapper decodes to exactly the bytes of
\* the script file, whatever its line endings
C19_PayloadIsFileBytes ==
    [][(AtShellScript /\ pc' = "shell_loop") =>
          b64decode(PayloadPut) = ScriptBytes]_vars

\* C19, amended: the payload of the wrapper decodes to the content of the
\* script file with its CR LF and CR line endings turned into LF
C19_PayloadIsNormalizedText ==
    [][(AtShellScript /\ pc' = "shell_loop") =>
          b64decode(PayloadPut) = WithLfEndings(ScriptBytes)]_vars

\* the wrapper of the script with CR LF endings has been put in
C19_Witness ==
    /\ pc = "shell_loop" /\ mi = 0
    /\ \E k \in 1..Len(matches) : matches[k].value = << <<"c.sh">> >>
    /\ \E k \in 1..Len(original_lines) : original_lines[k] = <<"ZWNobwo=">>

\* what the loop of a pass makes of the original lines, from match k down,
\* in a pass that meets no fatal condition
RECURSIVE LoopAlone(_, _, _, _)
LoopAlone(lines, ms, k, key_name) ==
    IF k = 0 THEN lines
    ELSE LET r == IF key_name = "script" THEN starlark_match(ms[k])
                  ELSE shell_match(ms[k])
         IN  IF r.outcome # "replace" THEN LoopAlone(lines, ms, k - 1, key_name)
             ELSE LoopAlone(
                      replace_lines(lines, build_expanded(lines, path_vars).line_map,
                                    ms[k].start_line, ms[k].end_line,
                                    r.replacement).original_lines,
                      ms, k - 1, key_name)

\* the result of one pass on a text taken by itself
PassAlone(text, key_name, enabled) ==
    IF ~enabled THEN text
    ELSE LET obj == ConfigContentInit(text, path_vars)
             ms  == find_valid_toml_matches(get_expanded(obj.expanded_lines),
                                            key_name).matches
         IN  IF ms = <<>> THEN text
             ELSE get_original(LoopAlone(obj.original_lines, ms, Len(ms), key_name))

\* the result of processing one fragment taken by itself
ProcessedAlone(text) ==
    PassAlone(PassAlone(text, "script", inline_starlark), "command", inline_shell)

\* the pieces of the accumulator that are banner lines
BannerIndexes ==
    {k \in 1..Len(combined_content) :
        combined_content[k] # <<>> /\ combined_content[k][1] = "# From file: "}

\* the index of the i-th banner line
Banner(i) ==
    CHOOSE b \in BannerIndexes : Cardinality({x \in BannerIndexes : x <= b}) = i

\* C20: after a run in which all n fragments were processed, the result holds
\* n banner blocks in input order: the i-th names the i-th file and is followed
\* at once by the content of the i-th fragment, processed as if it were alone
C20_FragmentsInInputOrder ==
    pc = "done" =>
        /\ Cardinality(BannerIndexes) = Len(config_files)
        /\ \A i \in 1..Len(config_files) :
               /\ combined_content[Banner(i)][2] = config_files[i].name
               /\ Len(combined_content) >= Banner(i) + 3
               /\ combined_content[Banner(i) + 3] = ProcessedAlone(config_files[i].text)
        /\ output.text = Concat(combined_content)

\* two different fragments were combined and the second one was transformed
C20_Witness ==
    /\ pc = "done" /\ Len(config_files) = 2
    /\ config_files[1].name # config_files[2].name
    /\ ProcessedAlone(config_files[2].text) # config_files[2].text
    /\ output.written

\* the run ended on the syntax error of find_valid_toml_matches
SyntaxErrorReported == pc = "exit" /\ error = "InvalidToml"

\* the line holds ${...} syntax
HasBraceSyntax(line) ==
    \E k \in 1..Len(line) : \E j \in (k + 3)..Len(line) :
        /\ line[k] = "$" /\ line[k + 1] = "{" /\ line[j] = "}"
        /\ \A x \in (k + 2)..(j - 1) : line[x] # "}"

\* the message names line n of the expanded fragment and shows it
NamesLine(n) ==
    \E k \in 1..Len(report) :
        report[k] = <<"  Line ", ToString(n), ": ">> \o expanded_lines[n]

HasHint ==
    \E k \in 1..Len(report) :
        report[k] # <<>> /\ report[k][1] = "  Hint: Variable(s) not expanded: "

\* C21: a fragment that is not valid TOML after expansion is fatal for the
\* run; the message names the offending line and shows it, and carries the
\* hint about an unexpanded variable whenever that line holds ${...} syntax
C21_SyntaxErrorNamesLineAndHints ==
    SyntaxErrorReported =>
        /\ exit_code = 1 /\ ~output.written
        /\ \E n \in 1..Len(expanded_lines) :
               /\ NamesLine(n)
               /\ HasBraceSyntax(expanded_lines[n]) => HasHint

\* C28: the result of expand_path_variables does not depend on the order in
\* which the entries of the variable map are visited: for every text and two
\* orders of the same entries, values with $NAME or ${NAME} of other entries
\* included, the two results are equal
C28_OrderOfEntriesIrrelevant ==
    (ex_results # <<>> /\ ex_permuted # <<>>) =>
        ex_permuted[1].result = ex_results[1]

----------------------------------------------------------------------------
(* Properties of the token-rotation server *)

\* thread t takes the step of the decorator of the endpoint
DecoratorStep(t, endpoint) ==
    /\ threads[t].pc = "auth" /\ threads[t].req.endpoint = endpoint
    /\ threads'[t] # threads[t]

Bearer(req) == req.authorization.scheme = "Bearer"

\* the request names a device with a generated token and carries that token
CarriesCurrentToken(req) ==
    /\ req.serial \in DOMAIN device_tokens
    /\ Bearer(req) /\ req.authorization.token = device_tokens[req.serial]

\* C22: POST /metrics gets past the authentication only when the serial header
\* names a device with a generated token and the bearer token is that token;
\* with the bootstrap token, without serial or without a well-formed
\* Authorization header the answer is 401
C22_MetricsNeedsGeneratedToken ==
    [][\A t \in 1..MaxRequests :
          /\ DecoratorStep(t, "/metrics") =>
                IF CarriesCurrentToken(threads[t].req)
                THEN threads'[t].pc = "view"
                ELSE threads'[t].pc = "idle" /\ response'.status = 401
          /\ (threads'[t].pc = "view" /\ threads'[t].req.endpoint = "/metrics") =>
                /\ threads'[t].req.serial \in DOMAIN device_tokens
                /\ Bearer(threads'[t].req)
                /\ threads'[t].req.authorization.token \notin {BOOTSTRAP_TOKEN, <<>>}]_vars

\* a /metrics request with the bootstrap token for a registered device was
\* answered 401 while another one with the generated token is past the check
C22_Witness ==
    /\ response.status = 401 /\ response.serial \in DOMAIN device_tokens
    /\ \E t \in 1..MaxRequests :
           threads[t].pc = "view" /\ threads[t].req.endpoint = "/metrics"

\* the view of /generate-token has run in thread t: a token that no device has
\* is stored for the serial and returned
StoredAndReturned(t) ==
    /\ response'.status = 200
    /\ response'.token \notin {device_tokens[d] : d \in DOMAIN device_tokens}
    /\ device_tokens'[threads[t].req.serial] = response'.token

ViewStep(t, endpoint) ==
    /\ threads[t].pc = "view" /\ threads[t].req.endpoint = endpoint
    /\ threads'[t] # threads[t]

\* C23 as stated: in every state /generate-token accepts a request with a
\* serial whose bearer token is the bootstrap token or the device's generated
\* token, and then stores and returns a new token for the serial
C23_BootstrapOrGeneratedAccepted ==
    [][\A t \in 1..MaxRequests :
          /\ (/\ DecoratorStep(t, "/generate-token")
              /\ threads[t].req.serial # "" /\ Bearer(threads[t].req)
              /\ \/ threads[t].req.authorization.token = BOOTSTRAP_TOKEN
                 \/ CarriesCurrentToken(threads[t].req))
                => threads'[t].pc = "view"
          /\ ViewStep(t, "/generate-token") => StoredAndReturned(t)]_vars

\* the bootstrap token of a device that has no generated token yet
CarriesBootstrapUnregistered(req) ==
    /\ req.serial # "" /\ req.serial \notin DOMAIN device_tokens
    /\ Bearer(req) /\ req.authorization.token = BOOTSTRAP_TOKEN

\* C23, amended: /generate-token accepts a request with a serial exactly when
\* its bearer token is the device's generated token or, for a device without
\* one, the bootstrap token; it then stores and returns a new token
C23_BootstrapOnlyUntilRegistered ==
    [][\A t \in 1..MaxRequests :
          /\ DecoratorStep(t, "/generate-token") =>
                IF \/ CarriesCurrentToken(threads[t].req)
                   \/ CarriesBootstrapUnregistered(threads[t].req)
                THEN threads'[t].pc = "view"
                ELSE threads'[t].pc = "idle" /\ response'.status = 401
          /\ ViewStep(t, "/generate-token") => StoredAndReturned(t)]_vars

\* a device got a token for the bootstrap token and another for that token
C23_Witness ==
    \E r1, r2 \in rotated :
        /\ r1.serial = r2.serial
        /\ r1.credential = BOOTSTRAP_TOKEN /\ r2.credential = r1.token
        /\ device_tokens[r1.serial] = r2.token /\ response.token = r2.token

\* the tokens with which a request for the serial passes a check of the server
ValidTokens(serial, tokens, n) ==
    {get_token_from_header(q) : q \in
        {q \in Requests(n) :
            /\ q.serial = serial
            /\ \/ authenticate_generated_token_only(q, tokens).is_valid
               \/ authenticate_bootstrap_or_generated(q, tokens).is_valid}}

\* C29: a device has at most one valid generated token: after a successful
\* POST /generate-token for a serial neither the token the device had before
\* nor the bootstrap token passes the check of /metrics or of /generate-token
\* for that serial, and the tokens of the other serials are as they were
C29_OneValidTokenPerDevice ==
    [][\A t \in 1..MaxRequests :
          ViewStep(t, "/generate-token") =>
              LET serial == threads[t].req.serial
                  before == IF serial \in DOMAIN device_tokens
                            THEN {device_tokens[serial]} ELSE {}
              IN  /\ ValidTokens(serial, device_tokens', uuid_count')
                        = {response'.token}
                  /\ response'.token \notin before \cup {BOOTSTRAP_TOKEN}
                  /\ DOMAIN device_tokens' = DOMAIN device_tokens \cup {serial}
                  /\ \A d \in DOMAIN device_tokens \ {serial} :
                        /\ device_tokens'[d] = device_tokens[d]
                        /\ ValidTokens(d, device_tokens', uuid_count')
                              = {device_tokens[d]}]_vars

\* a device has its second generated token while another device has its first
C29_Witness ==
    \E r1, r2 \in rotated :
        /\ r1.serial = r2.serial /\ r2.credential = r1.token
        /\ device_tokens[r1.serial] = r2.token
        /\ \E d \in DOMAIN device_tokens :
              d # r1.serial /\ device_tokens[d] # BOOTSTRAP_TOKEN

\* C30: a credential authorises at most one rotation per device under every
\* interleaving of the threads: no two successful POST /generate-token requests
\* for one serial were authenticated with the same token, be it the bootstrap
\* token or a generated one
C30_OneRotationPerCredential ==
    \A r1, r2 \in rotated :
        (r1.serial = r2.serial /\ r1.credential = r2.credential) => r1 = r2

----------------------------------------------------------------------------
(* Properties of the key search *)

SearchedDoc == tomlkit_parse(toml_text)

\* the entries of the document that bind the key
Bindings(key_name) ==
    {k \in DOMAIN SearchedDoc.entries : SearchedDoc.entries[k].key = key_name}

AtTopLevel(k) == SearchedDoc.entries[k].table.hdr = ""

\* the entry is in an item of an array of tables [[table.subtable]]
InSubtableArray(k) ==
    LET h == SearchedDoc.entries[k].table.hdr
    IN  /\ h # "" /\ Len(HeaderPath(h)) = 2
        /\ h \notin {"[t]"}

FirstIndex(seq, P(_)) == CHOOSE i \in DOMAIN seq :
                            P(seq[i]) /\ \A j \in 1..(i - 1) : ~P(seq[j])

\* place of the entry in the iteration over tables, subtables and items
TableRank(k) ==
    LET h == SearchedDoc.entries[k].table.hdr
        SameTable(g) == HeaderPath(g)[1] = HeaderPath(h)[1]
    IN  FirstIndex(SearchedDoc.headers, SameTable)

SubtableRank(k) ==
    LET h == SearchedDoc.entries[k].table.hdr
        Same(g) == g = h
    IN  FirstIndex(SearchedDoc.headers, Same)

IteratedBefore(f, k) ==
    \/ TableRank(f) < TableRank(k)
    \/ /\ TableRank(f) = TableRank(k)
       /\ \/ SubtableRank(f) < SubtableRank(k)
          \/ SubtableRank(f) = SubtableRank(k) /\ f < k

\* C25: _find_all_keys_in_toml returns the value bound to the key at top
\* level first, and then the values bound in the items of the arrays of tables
\* [[table.subtable]], in the iteration order of tables, subtables and items;
\* the keys of a plain table, of an array [[table]] and of deeper tables are
\* not in the result
C25_CollectsTopAndSubtableArrays ==
    keys_found # <<>> =>
        LET top == {k \in Bindings("script") : AtTopLevel(k)}
            sub == {k \in Bindings("script") : InSubtableArray(k)}
        IN  /\ Len(keys_found[1]) = Cardinality(top) + Cardinality(sub)
            /\ \A k \in top : keys_found[1][1] = SearchedDoc.entries[k].val
            /\ \A k \in sub :
                  keys_found[1][Cardinality(top) + 1
                        + Cardinality({f \in sub : IteratedBefore(f, k)})]
                      = SearchedDoc.entries[k].val

\* a document with the key at top level, in an array of tables one level
\* down and in a table that is not searched
C25_Witness ==
    /\ keys_found # <<>> /\ Len(keys_found[1]) = 2
    /\ \E k \in Bindings("script") : AtTopLevel(k)
    /\ \E k \in Bindings("script") : ~AtTopLevel(k) /\ ~InSubtableArray(k)

\* the bindings of the key that _find_all_keys_in_toml collects
Collected(key_name) ==
    {k \in Bindings(key_name) : AtTopLevel(k) \/ InSubtableArray(k)}

\* C26: the matches are deduplicated by position, not by value: for a document
\* in which the key is bound n times in collected contexts, with values that
\* may be equal, find_valid_toml_matches returns exactly n matches, no two
\* of them with the same start offset
C26_OneMatchPerCollectedBinding ==
    (matches_found # <<>> /\ matches_found[1].outcome = "ok") =>
        LET found == matches_found[1].matches
        IN  /\ Len(found) = Cardinality(Collected("script"))
            /\ \A i, j \in DOMAIN found : i # j => found[i].pos # found[j].pos

----------------------------------------------------------------------------
(* Properties of ConfigContent *)

\* number of expanded lines an original line produced
RunLength(lm, o) == Cardinality({e \in DOMAIN lm : lm[e] = o})

\* C5: replace_lines(exp_start, exp_end, text) raises ValueError exactly when
\* some original line in line_map[exp_start]..line_map[exp_end] produced more
\* than one expanded line, and succeeds when each of them produced exactly
\* one, whatever the original lines outside the range produced.
C5_FailsIffMultiLineInRange ==
    [][ call'.n = call.n + 1 =>
          LET os == line_map[call'.exp_start + 1]
              oe == line_map[call'.exp_end + 1]
          IN  /\ (\E o \in os..oe : RunLength(line_map, o) > 1)
                    => call'.outcome = "ValueError"
              /\ (\A o \in os..oe : RunLength(line_map, o) = 1)
                    => call'.outcome = "ok" ]_vars

\* a call failed although its range starts on a single-line original line
C5_Witness ==
    /\ call.n >= 1 /\ call.outcome = "ValueError"
    /\ RunLength(line_map, line_map[call.exp_start + 1]) = 1

\* C6: a successful replace_lines replaces exactly the original lines
\* line_map[exp_start]..line_map[exp_end] by the lines of the text: the result
\* is the old lines before, the replacement lines, the old lines after.
C6_ReplacesOriginalRange ==
    [][ (call'.n = call.n + 1 /\ call'.outcome = "ok") =>
          LET os == line_map[call'.exp_start + 1]
              oe == line_map[call'.exp_end + 1]
          IN  original_lines' =
                  SubSeq(original_lines, 1, os)
                      \o Split(call'.replacement_text)
                      \o SubSeq(original_lines, oe + 2, Len(original_lines)) ]_vars

\* a successful call whose expanded start index differs from the original
\* one because an earlier original line expanded to several lines
C6_Witness ==
    /\ call.n >= 1 /\ call.outcome = "ok"
    /\ call.exp_end > call.exp_start
    /\ line_map[call.exp_start + 1] < call.exp_start

\* C7: line_map is as long as expanded_lines, non-decreasing, and holds every
\* original line index 0..len(original_lines)-1 at least once (so as one
\* contiguous run), and nothing else.
C7_LineMapInvariant ==
    original_lines # <<>> =>
        /\ Len(line_map) = Len(expanded_lines)
        /\ \A e \in 1..(Len(line_map) - 1) : line_map[e] <= line_map[e + 1]
        /\ \A o \in 0..(Len(original_lines) - 1) : RunLength(line_map, o) >= 1
        /\ \A e \in 1..Len(line_map) : line_map[e] \in 0..(Len(original_lines) - 1)

\* after a successful call, some original line has a run of several entries
C7_Witness ==
    /\ call.n >= 1 /\ call.outcome = "ok"
    /\ \E o \in 0..(Len(original_lines) - 1) : RunLength(line_map, o) > 1

\* the expanded lines that original line o (0-based) produced
LinesOf(o) == {e \in DOMAIN line_map : line_map[e] = o}

\* the expanded lines of original line o are the lines of its expansion, in
\* order and next to each other
ProducedBy(o) ==
    LET sub == Split(expand_path_variables(original_lines[o + 1], path_vars))
    IN  /\ Cardinality(LinesOf(o)) = Len(sub)
        /\ \A e \in LinesOf(o) :
              LET i == Cardinality({f \in LinesOf(o) : f <= e})
              IN  /\ expanded_lines[e] = sub[i]
                  /\ i > 1 => e - 1 \in LinesOf(o)

\* C24: in every state of a ConfigContent the expanded view is the expansion
\* of the current original view: expanded_lines is the concatenation, over the
\* original lines in order, of the lines of expand_path_variables(line, vars),
\* and line_map[e] is the index of the original line that produced line e
C24_ViewsInSync ==
    original_lines # <<>> =>
        /\ DOMAIN line_map = DOMAIN expanded_lines
        /\ \A e \in DOMAIN line_map : line_map[e] \in 0..(Len(original_lines) - 1)
        /\ \A e, f \in DOMAIN line_map : e < f => line_map[e] <= line_map[f]
        /\ \A o \in 0..(Len(original_lines) - 1) : ProducedBy(o)

\* a successful call has put a line with a variable of several lines into a
\* ConfigContent that had been changed by a call before
C24_Witness ==
    /\ call.n >= 2 /\ call.outcome = "ok"
    /\ \E i \in DOMAIN call.replacement_text : call.replacement_text[i] = "$"
    /\ Len(expanded_lines) > Len(original_lines)

\* C27: a replace_lines call that fails with the multi-line-expansion error
\* leaves original_lines, expanded_lines and line_map as they were, so
\* get_original() and get_expanded() return the same text as before
C27_FailedCallChangesNothing ==
    [][ (call'.n = call.n + 1 /\ call'.outcome = "ValueError") =>
          /\ original_lines' = original_lines
          /\ expanded_lines' = expanded_lines
          /\ line_map' = line_map
          /\ get_original(original_lines') = get_original(original_lines)
          /\ get_expanded(expanded_lines') = get_expanded(expanded_lines) ]_vars

\* a call failed on a ConfigContent that a call before had changed
C27_Witness ==
    /\ call.n >= 2 /\ call.outcome = "ValueError"
    /\ get_original(original_lines) # text0

\* a token ${NAME:-default} at position i: NAME a non-empty run without ':'
\* and '}', default a non-empty run without '}'
DefaultTokenAt(s, i) ==
    \E a \in (i + 3)..Len(s) : \E c \in (a + 3)..Len(s) :
        /\ s[i] = "$" /\ s[i + 1] = "{"
        /\ \A j \in (i + 2)..(a - 1) : s[j] \notin {":", "}", NL}
        /\ s[a] = ":" /\ s[a + 1] = "-"
        /\ \A j \in (a + 2)..(c - 1) : s[j] \notin {"}", NL}
        /\ s[c] = "}"

HasDefaultToken(s) == \E i \in 1..Len(s) : DefaultTokenAt(s, i)

Constructed == original_lines # <<>> /\ call.n = 0

\* C8 as claimed: for every text, a ConfigContent constructed with an empty
\* variable map returns the text from get_original() and from get_expanded().
C8_EmptyMapNoOp ==
    (Constructed /\ path_vars = <<>>) =>
        /\ get_original(original_lines) = text0
        /\ get_expanded(expanded_lines) = text0

\* C8 amended: with an empty variable map get_original() returns the text,
\* and get_expanded() returns the text when no line of it holds a
\* ${NAME:-default} token.
C8_EmptyMapNoOpWithoutDefaults ==
    (Constructed /\ path_vars = <<>>) =>
        /\ get_original(original_lines) = text0
        /\ ~HasDefaultToken(text0) => get_expanded(expanded_lines) = text0

\* a text of several lines with placeholders, the last line empty
C8_Witness ==
    /\ Constructed /\ path_vars = <<>>
    /\ ~HasDefaultToken(text0)
    /\ \E i \in 1..Len(text0) : text0[i] = "$"
    /\ Len(text0) >= 2 /\ text0[Len(text0)] = NL

----------------------------------------------------------------------------
(* Properties of the expander *)

\* a token ${...}: "${" with a later "}"
HasBraceToken(s) ==
    \E i \in 1..Len(s) : \E j \in (i + 2)..Len(s) :
        s[i] = "$" /\ s[i + 1] = "{" /\ s[j] = "}"

\* $NAME for a key NAME of V, followed by a non-identifier character or by
\* the end of the text
HasBareRef(s, V) ==
    \E k \in 1..Len(V) : \E i \in 1..Len(s) :
        LET n == Len(V[k].name)
        IN  /\ s[i] = "$"
            /\ i + n <= Len(s)
            /\ SubSeq(s, i + 1, i + n) = V[k].name
            /\ (i + n = Len(s) \/ s[i + n + 1] \notin IdentChars)

\* C9 as claimed: a text without ${...} token is returned unchanged, for
\* every variable map.
C9_NoBraceTokenUnchanged ==
    (Len(ex_results) >= 1 /\ ~HasBraceToken(ex_text)) => ex_results[1] = ex_text

\* C9 amended: a text without ${...} token and without a bare $NAME
\* reference to a key of the map is returned unchanged.
C9_NoTokenNoBareRefUnchanged ==
    (Len(ex_results) >= 1 /\ ~HasBraceToken(ex_text)
        /\ ~HasBareRef(ex_text, path_vars)) => ex_results[1] = ex_text

\* a text with "$A" followed by an identifier character, A a key of the map
C9_Witness ==
    /\ Len(ex_results) >= 1 /\ path_vars # <<>>
    /\ ~HasBraceToken(ex_text) /\ ~HasBareRef(ex_text, path_vars)
    /\ \E i \in 1..(Len(ex_text) - 2) :
           ex_text[i] = "$" /\ ex_text[i + 1] = "A" /\ ex_text[i + 2] = "x"

\* a ${NAME:-default} token starts at position i of s: NAME is a run of
\* identifier characters, default a run of characters other than "}"
DefaultTokenWithNameAt(s, i) ==
    /\ var_default_pattern(s, i).ok
    /\ \A k \in 1..Len(var_default_pattern(s, i).var_name) :
           var_default_pattern(s, i).var_name[k] \in IdentChars

\* what the token at position i stands for under the map V
TokenValue(s, i, V) ==
    IF \E k \in 1..Len(V) : V[k].name = var_default_pattern(s, i).var_name
    THEN GetVar(V, var_default_pattern(s, i).var_name)
    ELSE var_default_pattern(s, i).default_value

\* the first pass puts the value of the token at position i in its place
TokenReplacedAt(s, i, V, result) ==
    result = expand_default_values(SubSeq(s, 1, i - 1), V)
                 \o TokenValue(s, i, V)
                 \o expand_default_values(
                        SubSeq(s, var_default_pattern(s, i).end + 1, Len(s)), V)

\* C11: the first expansion pass replaces every ${NAME:-default} token of the
\* input by the value of NAME in the map when NAME is a key of the map, and
\* by the default text otherwise, also when the map is empty
C11_DefaultTokensReplaced ==
    ex_defaults # <<>> =>
        \A i \in 1..Len(ex_text) :
            DefaultTokenWithNameAt(ex_text, i) =>
                TokenReplacedAt(ex_text, i, path_vars, ex_defaults[1])

\* every "${" of s from position i on has a "}" after it in s
RECURSIVE BracesClosed(_, _)
BracesClosed(s, i) ==
    IF i >= Len(s) THEN TRUE
    ELSE IF s[i] = "$" /\ s[i + 1] = "{"
    THEN (\E k \in (i + 2)..Len(s) : s[k] = "}") /\ BracesClosed(s, i + 1)
    ELSE BracesClosed(s, i + 1)

\* $name followed by an identifier character starts at position i of s,
\* outside every ${...} token
BareRefBeforeIdentAt(s, i, name) ==
    /\ StartsWithAt(s, i, <<"$">> \o name)
    /\ i + Len(name) + 1 <= Len(s)
    /\ s[i + Len(name) + 1] \in IdentChars
    /\ BracesClosed(SubSeq(s, 1, i - 1), 1)

\* the result keeps the occurrence at position i as it is, between the
\* expansions of what is before and what is after it
BareRefKeptAt(s, i, name, V, result) ==
    result = expand_path_variables(SubSeq(s, 1, i - 1), V)
                 \o <<"$">> \o name
                 \o expand_path_variables(SubSeq(s, i + Len(name) + 1, Len(s)), V)

\* C12: for a map that contains VAR, an occurrence of $VAR that is followed
\* by an identifier character is not changed by the substitution for VAR
C12_BareRefNeedsBoundary ==
    Len(ex_results) >= 1 =>
        \A k \in 1..Len(path_vars) : \A i \in 1..Len(ex_text) :
            BareRefBeforeIdentAt(ex_text, i, path_vars[k].name) =>
                BareRefKeptAt(ex_text, i, path_vars[k].name, path_vars, ex_results[1])

\* $Ax was kept while another reference to A in the same text was substituted
C12_Witness ==
    /\ Len(ex_results) >= 1 /\ HasVar(path_vars, <<"A">>)
    /\ \E i \in 1..Len(ex_text) : BareRefBeforeIdentAt(ex_text, i, <<"A">>)
    /\ \E i \in 1..Len(ex_text) :
           /\ StartsWithAt(ex_text, i, <<"$", "A">>)
           /\ BareVarBoundary(ex_text, i + 2)
           /\ BracesClosed(SubSeq(ex_text, 1, i - 1), 1)
    /\ ex_results[1] # ex_text

\* C10: with an empty variable map, expanding the result of an expansion
\* again changes nothing.
C10_EmptyMapIdempotent ==
    (path_vars = <<>> /\ Len(ex_results) = 2) => ex_results[2] = ex_results[1]

====
